---- MODULE Spec2Model ----
(***************************************************************************)
(* Edit history, conflict detection and three-way merge of the wiki        *)
(* backend: the article / edit / conflict tables and the API handlers      *)
(* create_article, edit_article, fork_article, delete_conflict and the     *)
(* conflict resolution DbConflict::to_api_conflict.                        *)
(***************************************************************************)
EXTENDS Integers, Sequences, FiniteSets, TLC

(* ------------------------------ bounds --------------------------------- *)
\* rows the article table may hold
MaxArticles == 2
\* rows the edit table may hold
MaxEdits == 3
\* conflict ids the serial column may hand out
MaxConflicts == 1
\* lines of a submitted document
DocLen == 5

(* ------------------------------ values --------------------------------- *)
\* Option::None of an id, and of an ApiConflict
NoId == 0
None == [id |-> 0]
\* local persons; person 1 is the admin account
Persons == {1, 2}
IsAdmin(p) == p = 1
\* the instances of the federation, named by their domain; each has one
\* local person
Instances == {"x", "y", "z"}
MaxActivities == 6
\* the instance whose actor cache is modelled, and the other domains
LocalDomain == "x"
RemoteDomains == Instances \ {LocalDomain}
\* federation ids: of an instance's article collection, of an article
ArticlesUrl(d) == [kind |-> "Articles", domain |-> d]
\* the local instance's own row, written at setup with its keypair
LocalInstanceRow ==
    [ap_id |-> [kind |-> "Group", domain |-> LocalDomain], description |-> "d1",
     articles_url |-> ArticlesUrl(LocalDomain), private_key |-> TRUE, local |-> TRUE]
\* whom the local person of each instance may ask to follow
FollowTargets(i) == IF i = "x" THEN {"y"} ELSE IF i = "z" THEN {"x"} ELSE {}

Err(msg) == [err |-> msg]
IsErr(x) == "err" \in DOMAIN x

MinOf(S) == CHOOSE x \in S : \A y \in S : x <= y
MaxOf(S) == CHOOSE x \in S : \A y \in S : x >= y

(* ------------------------------- texts --------------------------------- *)
\* A text is its lines plus whether it ends with '\n'.
EmptyText == [lines |-> <<>>, nl |-> FALSE]
Doc(h, t) == [lines |-> <<h>> \o [i \in 1..(DocLen - 2) |-> "m"] \o <<t>>, nl |-> TRUE]
NoNewline(t) == [t EXCEPT !.nl = FALSE]
\* a line holding "](https://<local domain>", a line fmtm cannot format, and
\* a line with trailing blanks that fmtm strips
LocalLinkLine == "[a](https://local.example/article/a)"
UnformattableLine == "<unformattable>"
UntrimmedLine == "A  "
\* what each person submits, as (text, summary): person 1 the base text (also
\* without its final newline, and with blanks to trim) and one change of its
\* first line; person 2 a rival change of the first line, a change of the
\* last line, and three submissions that validation rejects
Draft(t, s) == [text |-> t, summary |-> s]
Drafts(p) ==
    IF p = 1
    THEN {Draft(Doc("A", "E"), "fix"), Draft(Doc("A2", "E"), "fix"),
          Draft(NoNewline(Doc("A", "E")), "fix"), Draft(Doc(UntrimmedLine, "E"), "fix")}
    ELSE {Draft(Doc("A3", "E"), "fix"), Draft(Doc("A", "E2"), "fix"),
          Draft(Doc("A3", "E"), ""),
          Draft(Doc(LocalLinkLine, "E"), "fix"), Draft(Doc(UnformattableLine, "E"), "fix")}

ends_with_newline(t) == t.nl
push_newline(t) == [t EXCEPT !.nl = TRUE]
contains_local_link(t) == \E i \in DOMAIN t.lines : t.lines[i] = LocalLinkLine

\* fmtm::format(text, Some(80)): fails on input it cannot parse, strips
\* trailing blanks, leaves short normalised lines alone.
fmtm_format(t) ==
    IF \E i \in DOMAIN t.lines : t.lines[i] = UnformattableLine
    THEN Err("Markdown formatting failed")
    ELSE [t EXCEPT !.lines = [i \in DOMAIN t.lines |->
                                 IF t.lines[i] = UntrimmedLine THEN "A" ELSE t.lines[i]]]

(* ------------------------------ patches -------------------------------- *)
\* diffy::create_patch: a unified diff, each change carrying 3 lines of
\* context on either side.  Changes at most 6 lines apart share one hunk,
\* which covers every change of the documents modelled here.
create_patch(old, new) ==
    LET o == old.lines
        n == new.lines
    IN  IF o = n THEN <<>>
        ELSE IF o = <<>> THEN <<[start |-> 0, old |-> <<>>, new |-> n]>>
        ELSE IF Len(o) # Len(n) THEN <<[start |-> 1, old |-> o, new |-> n]>>
        ELSE LET ch == {i \in 1..Len(o) : o[i] # n[i]}
                 lo == IF MinOf(ch) - 3 < 1 THEN 1 ELSE MinOf(ch) - 3
                 hi == IF MaxOf(ch) + 3 > Len(o) THEN Len(o) ELSE MaxOf(ch) + 3
             IN  <<[start |-> lo, old |-> SubSeq(o, lo, hi), new |-> SubSeq(n, lo, hi)]>>

\* Patch::to_string / Patch::from_str: the rendered patch always carries the
\* "--- original / +++ modified" header, so it is never the empty string.
EmptyString == [header |-> FALSE, hunks |-> <<>>]
patch_to_string(p) == [header |-> TRUE, hunks |-> p]
patch_from_str(s) == s.hunks

\* diffy::apply: each hunk must find its old lines in the base (at the
\* stated line, else at the nearest line where they match).
apply(base, patch) ==
    IF patch = <<>> THEN base
    ELSE LET h == patch[1]
             b == base.lines
             k == Len(h.old)
         IN  IF k = 0
             THEN [lines |-> h.new \o b, nl |-> TRUE]
             ELSE LET pos == {p \in 1..(Len(b) - k + 1) : SubSeq(b, p, p + k - 1) = h.old}
                      dist(p) == IF p >= h.start THEN p - h.start ELSE h.start - p
                  IN  IF pos = {} THEN Err("error applying hunk")
                      ELSE LET p == CHOOSE q \in pos :
                                      \A r \in pos : dist(q) < dist(r) \/ (dist(q) = dist(r) /\ q <= r)
                               r == SubSeq(b, 1, p - 1) \o h.new \o SubSeq(b, p + k, Len(b))
                           IN  [lines |-> r, nl |-> r # <<>>]

\* diffy::merge(ancestor, ours, theirs): line by line, a side that kept the
\* ancestor's line yields to the other; two different changes of one line
\* conflict and are wrapped in diff3 conflict markers.
RECURSIVE MarkedLines(_, _, _, _)
MarkedLines(a, o, t, i) ==
    IF i > Len(a) THEN <<>>
    ELSE (IF o[i] = t[i] THEN <<o[i]>>
          ELSE IF o[i] = a[i] THEN <<t[i]>>
          ELSE IF t[i] = a[i] THEN <<o[i]>>
          ELSE <<"<<<<<<< ours", o[i], "||||||| original", a[i], "=======", t[i], ">>>>>>> theirs">>)
         \o MarkedLines(a, o, t, i + 1)

merge(ancestor, ours, theirs) ==
    LET a == ancestor.lines
        o == ours.lines
        t == theirs.lines
    IN  IF o = t \/ t = a THEN [ok |-> TRUE, text |-> ours]
        ELSE IF o = a THEN [ok |-> TRUE, text |-> theirs]
        ELSE IF Len(a) # Len(o) \/ Len(a) # Len(t)
        THEN [ok |-> FALSE,
              text |-> [lines |-> <<"<<<<<<< ours">> \o o \o <<"||||||| original">> \o a
                                   \o <<"=======">> \o t \o <<">>>>>>> theirs">>, nl |-> TRUE]]
        ELSE LET clash == \E i \in 1..Len(a) : o[i] # a[i] /\ t[i] # a[i] /\ o[i] # t[i]
             IN  [ok |-> ~clash, text |-> [lines |-> MarkedLines(a, o, t, 1), nl |-> TRUE]]

(* ------------------------------ SHA-256 -------------------------------- *)
\* A 32-bit word is the sequence of its bits, most significant first; the
\* tables give each word as its two 16-bit halves.
bits16(n) == SubSeq([i \in 1..16 |-> (n \div 2^(16 - i)) % 2], 1, 16)
word(halves) == bits16(halves[1]) \o bits16(halves[2])

\* the number whose bits are w[from + 1] .. w[from + 16]
value16(w, from) ==
    32768 * w[from + 1] + 16384 * w[from + 2] + 8192 * w[from + 3] + 4096 * w[from + 4]
        + 2048 * w[from + 5] + 1024 * w[from + 6] + 512 * w[from + 7] + 256 * w[from + 8]
        + 128 * w[from + 9] + 64 * w[from + 10] + 32 * w[from + 11] + 16 * w[from + 12]
        + 8 * w[from + 13] + 4 * w[from + 14] + 2 * w[from + 15] + w[from + 16]

\* addition modulo 2^32
wrapping_add(x, y) ==
    LET lo == value16(x, 16) + value16(y, 16)
        hi == value16(x, 0) + value16(y, 0) + lo \div 65536
    IN  word(<<hi % 65536, lo % 65536>>)

\* (SubSeq makes each result a plain sequence of 32 bits)
xor(x, y) == SubSeq([i \in 1..32 |-> (x[i] + y[i]) % 2], 1, 32)
and(x, y) == SubSeq([i \in 1..32 |-> x[i] * y[i]], 1, 32)
not(x) == SubSeq([i \in 1..32 |-> 1 - x[i]], 1, 32)
rotr(x, n) == SubSeq([i \in 1..32 |-> x[((i - n - 1) % 32) + 1]], 1, 32)
shr(x, n) == SubSeq([i \in 1..32 |-> IF i <= n THEN 0 ELSE x[i - n]], 1, 32)

small_sigma0(x) == xor(xor(rotr(x, 7), rotr(x, 18)), shr(x, 3))
small_sigma1(x) == xor(xor(rotr(x, 17), rotr(x, 19)), shr(x, 10))
big_sigma0(x) == xor(xor(rotr(x, 2), rotr(x, 13)), rotr(x, 22))
big_sigma1(x) == xor(xor(rotr(x, 6), rotr(x, 11)), rotr(x, 25))
ch(x, y, z) == xor(and(x, y), and(not(x), z))
maj(x, y, z) == xor(xor(and(x, y), and(x, z)), and(y, z))

\* the round constants and the initial hash value
K256 ==
    <<<<17034, 12184>>, <<28983, 17553>>, <<46528, 64463>>, <<59829, 56229>>,
      <<14678, 49755>>, <<23025, 4593>>, <<37439, 33444>>, <<43804, 24277>>,
      <<55303, 43672>>, <<4739, 23297>>, <<9265, 34238>>, <<21772, 32195>>,
      <<29374, 23924>>, <<32990, 45566>>, <<39900, 1703>>, <<49563, 61812>>,
      <<58523, 27073>>, <<61374, 18310>>, <<4033, 40390>>, <<9228, 41420>>,
      <<11753, 11375>>, <<19060, 33962>>, <<23728, 43484>>, <<30457, 35034>>,
      <<38974, 20818>>, <<43057, 50797>>, <<45059, 10184>>, <<48985, 32711>>,
      <<50912, 3059>>, <<54695, 37191>>, <<1738, 25425>>, <<5161, 10599>>,
      <<10167, 2693>>, <<11803, 8504>>, <<19756, 28156>>, <<21304, 3347>>,
      <<25866, 29524>>, <<30314, 2747>>, <<33218, 51502>>, <<37490, 11397>>,
      <<41663, 59553>>, <<43034, 26187>>, <<49739, 35696>>, <<51052, 20899>>,
      <<53650, 59417>>, <<54937, 1572>>, <<62478, 13701>>, <<4202, 41072>>,
      <<6564, 49430>>, <<7735, 27656>>, <<10056, 30540>>, <<13488, 48309>>,
      <<14620, 3251>>, <<20184, 43594>>, <<23452, 51791>>, <<26670, 28659>>,
      <<29839, 33518>>, <<30885, 25455>>, <<33992, 30740>>, <<36039, 520>>,
      <<37054, 65530>>, <<42064, 27883>>, <<48889, 41975>>, <<50801, 30962>>>>

H256 ==
    <<<<27145, 58983>>, <<47975, 44677>>, <<15470, 62322>>, <<42319, 62778>>,
      <<20750, 21119>>, <<39685, 26764>>, <<8067, 55723>>, <<23520, 52505>>>>

\* the one block of a message of at most 55 bytes: the bytes, the byte 0x80,
\* zeros, and the length in bits as a 64-bit number
padded(bytes) ==
    [i \in 1..64 |-> IF i <= Len(bytes) THEN bytes[i]
                     ELSE IF i = Len(bytes) + 1 THEN 128
                     ELSE IF i = 63 THEN (8 * Len(bytes)) \div 256
                     ELSE IF i = 64 THEN (8 * Len(bytes)) % 256
                     ELSE 0]

block_word(block, t) ==
    word(<<256 * block[4 * t - 3] + block[4 * t - 2], 256 * block[4 * t - 1] + block[4 * t]>>)

\* word t of the message schedule, from the words before it
schedule_word(w, t) ==
    wrapping_add(wrapping_add(small_sigma1(w[t - 2]), w[t - 7]),
                 wrapping_add(small_sigma0(w[t - 15]), w[t - 16]))

\* the message schedule extended to n words; the first half of the missing
\* words is computed before the second
RECURSIVE schedule(_, _)
schedule(w, n) ==
    IF Len(w) >= n THEN w
    ELSE IF Len(w) = n - 1 THEN Append(w, schedule_word(w, n))
    ELSE LET half == schedule(w, (Len(w) + n) \div 2)
         IN  IF Len(half) >= n THEN half ELSE schedule(half, n)

\* one round on the working variables s = <<a, b, c, d, e, f, g, h>>
round(s, w, t) ==
    LET t1 == wrapping_add(wrapping_add(wrapping_add(s[8], big_sigma1(s[5])),
                                        wrapping_add(ch(s[5], s[6], s[7]), word(K256[t]))),
                           w[t])
        t2 == wrapping_add(big_sigma0(s[1]), maj(s[1], s[2], s[3]))
    IN  <<wrapping_add(t1, t2), s[1], s[2], s[3], wrapping_add(s[4], t1), s[5], s[6], s[7]>>

\* the rounds from..to; the first half of them is computed before the second
RECURSIVE rounds(_, _, _, _)
rounds(s, w, from, to) ==
    IF from = to THEN round(s, w, from)
    ELSE LET mid == (from + to) \div 2
             half == rounds(s, w, from, mid)
         IN  IF Len(half) # 8 THEN half ELSE rounds(half, w, mid + 1, to)

\* Sha256 of a short message, as eight words
Sha256(bytes) ==
    LET block == padded(bytes)
        w == schedule(SubSeq([t \in 1..16 |-> block_word(block, t)], 1, 16), 64)
        h0 == SubSeq([k \in 1..8 |-> word(H256[k])], 1, 8)
        s == rounds(h0, w, 1, Len(w))
    IN  SubSeq([k \in 1..8 |-> wrapping_add(h0[k], s[k])], 1, 8)

\* hex::encode of the first 16 bytes of the digest
HexDigits == <<"0", "1", "2", "3", "4", "5", "6", "7", "8", "9", "a", "b", "c", "d", "e", "f">>
\* mutant: the last 16 bytes of the digest are encoded
hex_encode_last_16(digest) ==
    SubSeq([i \in 1..32 |->
               LET wd == digest[((i - 1) \div 8) + 5]
                   at == 4 * ((i - 1) % 8)
               IN  HexDigits[8 * wd[at + 1] + 4 * wd[at + 2] + 2 * wd[at + 3] + wd[at + 4] + 1]],
           1, 32)

hex_encode_16(digest) ==
    SubSeq([i \in 1..32 |->
               LET wd == digest[((i - 1) \div 8) + 1]
                   at == 4 * ((i - 1) % 8)
               IN  HexDigits[8 * wd[at + 1] + 4 * wd[at + 2] + 2 * wd[at + 3] + wd[at + 4] + 1]],
           1, 32)

\* EditVersion::new(diff).hash() for a diff given by its bytes
version_hash(bytes) == hex_encode_16(Sha256(bytes))

(* ------------------------------ versions ------------------------------- *)
\* EditVersion::new: the first 16 bytes of SHA-256 of the diff text; the
\* digest is modelled as collision free, so two versions are equal exactly
\* when the diff texts are.
EditVersion_new(diff) == [sha256_16 |-> diff]
EditVersion_default == EditVersion_new(EmptyString)
\* a well-formed version that no edit of the instance carries
UnknownVersion == EditVersion_new(patch_to_string(<<[start |-> 1, old |-> <<"x">>, new |-> <<"y">>]>>))

(* ------------------------------- state --------------------------------- *)
VARIABLES
    article,        \* article table: row i has id i
    edit,           \* edit table in insertion order: row i has id i
    conflict,       \* conflict table: a set of rows
    conflict_seq,   \* last id handed out by the conflict table's serial column
    last,           \* the request handled last, and its response
    req             \* per person: the edit_article request in flight, or how the last one ended

\* the federation side: one database per instance, and the network
VARIABLES
    instance_follow,  \* per instance: its instance_follow table, a set of rows
    fed_article,      \* per instance: the articles it holds, keyed by ap_id
    net,              \* deliveries in flight: [to, activity]
    sent,             \* every delivery ever handed to send_activity
    delivered,        \* deliveries that reached an inbox, in order
    activity_seq      \* activity ids generated so far

fedvars == <<instance_follow, fed_article, net, sent, delivered, activity_seq>>

\* the actor cache of instance x, filled by resolving federation ids
VARIABLES
    instance_tab,     \* instance table of x: a set of rows keyed by ap_id
    person_tab,       \* person table of x: a set of rows keyed by ap_id
    resolved          \* the outcome of the last resolve

cachevars == <<instance_tab, person_tab, resolved>>

vars == <<article, edit, conflict, conflict_seq, last, req, fedvars, cachevars>>

Db == [article |-> article, edit |-> edit, conflict |-> conflict, conflict_seq |-> conflict_seq]

(* --------------------------- database layer ---------------------------- *)
replace_spaces(title) == [i \in DOMAIN title |-> IF title[i] = " " THEN "_" ELSE title[i]]

\* the article table's unique index on ap_id
ap_id_taken(db, ap_id) == \E i \in DOMAIN db.article : db.article[i].ap_id = ap_id

DbArticle_create(db, form) ==
    [db EXCEPT !.article = Append(@, [id |-> Len(@) + 1,
                                      title |-> replace_spaces(form.title),
                                      text |-> form.text,
                                      ap_id |-> form.ap_id,
                                      local |-> form.local,
                                      protected |-> form.protected])]

\* mutant: the upsert inserts a second row instead of updating the first
DbArticle_create_or_update_row_inserts(db, form) == DbArticle_create(db, form)

\* DbArticle::create_or_update on the article table: insert, or on a conflict
\* on ap_id set every column of the form in the row that holds the ap_id
DbArticle_create_or_update_row(db, form) ==
    IF ap_id_taken(db, form.ap_id)
    THEN LET k == CHOOSE i \in DOMAIN db.article : db.article[i].ap_id = form.ap_id
         IN  [db EXCEPT !.article[k] = [id |-> k,
                                        title |-> replace_spaces(form.title),
                                        text |-> form.text,
                                        ap_id |-> form.ap_id,
                                        local |-> form.local,
                                        protected |-> form.protected]]
    ELSE DbArticle_create(db, form)

\* mutant: the update statement lacks its filter on the article id
DbArticle_update_text_all(db, id, text) ==
    [db EXCEPT !.article = [i \in DOMAIN @ |-> [@[i] EXCEPT !.text = text]]]

DbArticle_update_text(db, id, text) == [db EXCEPT !.article[id].text = text]

DbArticle_read(db, id) == IF id \in DOMAIN db.article THEN db.article[id] ELSE Err("NotFound")

list_for_article(db, article_id) == SelectSeq(db.edit, LAMBDA e : e.article_id = article_id)

\* mutant: the edits are ordered by ascending id
latest_edit_version_first(db, article_id) ==
    LET edits == list_for_article(db, article_id)
    IN  IF edits = <<>> THEN EditVersion_default ELSE edits[1].hash

latest_edit_version(db, article_id) ==
    LET edits == list_for_article(db, article_id)
    IN  IF edits = <<>> THEN EditVersion_default ELSE edits[Len(edits)].hash

DbArticle_read_view(db, id) ==
    IF id \in DOMAIN db.article
    THEN [article |-> db.article[id], latest_version |-> latest_edit_version(db, id)]
    ELSE Err("NotFound")

DbEdit_create(db, form) == [db EXCEPT !.edit = Append(@, form)]

DbEdit_read(db, version) ==
    LET hits == {i \in DOMAIN db.edit : db.edit[i].hash = version}
    IN  IF hits = {} THEN Err("NotFound") ELSE db.edit[MinOf(hits)]

\* mutant: the insert replaces the Conflict row the article already has
DbConflict_create_replaces(db, form) ==
    [db EXCEPT !.conflict = {c \in @ : c.article_id # form.article_id}
                                \cup {[id |-> db.conflict_seq + 1] @@ form},
               !.conflict_seq = @ + 1]

DbConflict_create(db, form) ==
    [db EXCEPT !.conflict = @ \cup {[id |-> db.conflict_seq + 1] @@ form},
               !.conflict_seq = @ + 1]

\* mutant: the delete statement matches the row and removes nothing
DbConflict_delete_keeps(db, id) ==
    IF \E c \in db.conflict : c.id = id THEN db ELSE Err("NotFound")

DbConflict_delete(db, id) ==
    IF \E c \in db.conflict : c.id = id
    THEN [db EXCEPT !.conflict = {c \in @ : c.id # id}]
    ELSE Err("NotFound")

(* --------------------------- version store ----------------------------- *)
\* Walks the chain from the sentinel: the next edit (in insertion order)
\* whose previous_version_id is the version reached so far is applied, until
\* the version reached is the target.
RECURSIVE walk_chain(_, _, _, _, _)
walk_chain(edits, target, cur, text, i) ==
    IF cur = target THEN text
    ELSE LET next == {j \in (i + 1)..Len(edits) : edits[j].previous_version_id = cur}
         IN  IF next = {} THEN Err("VersionNotFound")
             ELSE LET j == MinOf(next)
                      t == apply(text, patch_from_str(edits[j].diff))
                  IN  IF IsErr(t) THEN t ELSE walk_chain(edits, target, edits[j].hash, t, j)

generate_article_version(edits, version) ==
    walk_chain(edits, version, EditVersion_default, EmptyText, 0)

can_edit_article(a, is_admin) == ~a.protected \/ is_admin

DbEditForm_new(original_article, creator_id, updated_text, summary, previous_version) ==
    LET diff == patch_to_string(create_patch(original_article.text, updated_text))
    IN  [creator_id |-> creator_id,
         hash |-> EditVersion_new(diff),
         diff |-> diff,
         summary |-> summary,
         article_id |-> original_article.id,
         previous_version_id |-> previous_version]

\* A local article takes the edit at once; an edit of a remote article is
\* only proposed to its origin and not stored here.
submit_article_update(db, new_text, summary, previous_version, original_article, creator_id) ==
    LET form == DbEditForm_new(original_article, creator_id, new_text, summary, previous_version)
    IN  IF original_article.local
        THEN DbArticle_update_text(DbEdit_create(db, form), form.article_id, new_text)
        ELSE db

(* -------------------------- conflict resolver -------------------------- *)
Ok(db, c) == [db |-> db, kind |-> "Ok", err |-> "", conflict |-> c]
Fail(db, msg) == [db |-> db, kind |-> "Err", err |-> msg, conflict |-> None]

\* mutant: a merge that left conflict markers is committed like a clean one
to_api_conflict_commits(db, c) ==
    LET art == DbArticle_read(db, c.article_id)
    IN  IF IsErr(art) THEN Fail(db, art.err)
        ELSE LET original_article == art   \* dereference_forced of a local article reads the row
                 edits == list_for_article(db, original_article.id)
                 ancestor == generate_article_version(edits, c.previous_version_id)
             IN  IF IsErr(ancestor) THEN Fail(db, ancestor.err)
                 ELSE LET ours == apply(ancestor, patch_from_str(c.diff))
                      IN  IF IsErr(ours) THEN Fail(db, ours.err)
                          ELSE LET m == merge(ancestor, ours, original_article.text)
                               IN  IF m.ok \/ ~m.ok
                                   THEN LET db1 == submit_article_update(db, m.text, c.summary,
                                                       c.previous_version_id, original_article,
                                                       c.creator_id)
                                            db2 == DbConflict_delete(db1, c.id)
                                        IN  IF IsErr(db2) THEN Fail(db1, db2.err) ELSE Ok(db2, None)
                                   ELSE Ok(db, [id |-> c.id,
                                                hash |-> c.hash,
                                                three_way_merge |-> m.text,
                                                summary |-> c.summary,
                                                article_id |-> original_article.id,
                                                previous_version_id |->
                                                    latest_edit_version(db, original_article.id)])

\* mutant: the submitter's text is committed instead of the merged text
to_api_conflict_ours(db, c) ==
    LET art == DbArticle_read(db, c.article_id)
    IN  IF IsErr(art) THEN Fail(db, art.err)
        ELSE LET original_article == art   \* dereference_forced of a local article reads the row
                 edits == list_for_article(db, original_article.id)
                 ancestor == generate_article_version(edits, c.previous_version_id)
             IN  IF IsErr(ancestor) THEN Fail(db, ancestor.err)
                 ELSE LET ours == apply(ancestor, patch_from_str(c.diff))
                      IN  IF IsErr(ours) THEN Fail(db, ours.err)
                          ELSE LET m == merge(ancestor, ours, original_article.text)
                               IN  IF m.ok
                                   THEN LET db1 == submit_article_update(db, ours, c.summary,
                                                       c.previous_version_id, original_article,
                                                       c.creator_id)
                                            db2 == DbConflict_delete(db1, c.id)
                                        IN  IF IsErr(db2) THEN Fail(db1, db2.err) ELSE Ok(db2, None)
                                   ELSE Ok(db, [id |-> c.id,
                                                hash |-> c.hash,
                                                three_way_merge |-> m.text,
                                                summary |-> c.summary,
                                                article_id |-> original_article.id,
                                                previous_version_id |->
                                                    latest_edit_version(db, original_article.id)])

\* mutant: the descriptor names the version the conflict was made against
to_api_conflict_stale_version(db, c) ==
    LET art == DbArticle_read(db, c.article_id)
    IN  IF IsErr(art) THEN Fail(db, art.err)
        ELSE LET original_article == art   \* dereference_forced of a local article reads the row
                 edits == list_for_article(db, original_article.id)
                 ancestor == generate_article_version(edits, c.previous_version_id)
             IN  IF IsErr(ancestor) THEN Fail(db, ancestor.err)
                 ELSE LET ours == apply(ancestor, patch_from_str(c.diff))
                      IN  IF IsErr(ours) THEN Fail(db, ours.err)
                          ELSE LET m == merge(ancestor, ours, original_article.text)
                               IN  IF m.ok
                                   THEN LET db1 == submit_article_update(db, m.text, c.summary,
                                                       c.previous_version_id, original_article,
                                                       c.creator_id)
                                            db2 == DbConflict_delete(db1, c.id)
                                        IN  IF IsErr(db2) THEN Fail(db1, db2.err) ELSE Ok(db2, None)
                                   ELSE Ok(db, [id |-> c.id,
                                                hash |-> c.hash,
                                                three_way_merge |-> m.text,
                                                summary |-> c.summary,
                                                article_id |-> original_article.id,
                                                previous_version_id |-> c.previous_version_id])

\* mutant: the merge is made against the text before the article's latest edit
to_api_conflict_stale_text(db, c) ==
    LET art == DbArticle_read(db, c.article_id)
    IN  IF IsErr(art) THEN Fail(db, art.err)
        ELSE LET original_article == art
                 edits == list_for_article(db, original_article.id)
                 ancestor == generate_article_version(edits, c.previous_version_id)
                 earlier == generate_article_version(edits, edits[Len(edits)].previous_version_id)
             IN  IF IsErr(ancestor) THEN Fail(db, ancestor.err)
                 ELSE LET ours == apply(ancestor, patch_from_str(c.diff))
                      IN  IF IsErr(ours) THEN Fail(db, ours.err)
                          ELSE LET m == merge(ancestor, ours,
                                              IF IsErr(earlier) THEN original_article.text ELSE earlier)
                               IN  IF m.ok
                                   THEN LET db1 == submit_article_update(db, m.text, c.summary,
                                                       c.previous_version_id, original_article,
                                                       c.creator_id)
                                            db2 == DbConflict_delete(db1, c.id)
                                        IN  IF IsErr(db2) THEN Fail(db1, db2.err) ELSE Ok(db2, None)
                                   ELSE Ok(db, [id |-> c.id,
                                                hash |-> c.hash,
                                                three_way_merge |-> m.text,
                                                summary |-> c.summary,
                                                article_id |-> original_article.id,
                                                previous_version_id |->
                                                    latest_edit_version(db, original_article.id)])

to_api_conflict(db, c) ==
    LET art == DbArticle_read(db, c.article_id)
    IN  IF IsErr(art) THEN Fail(db, art.err)
        ELSE LET original_article == art   \* dereference_forced of a local article reads the row
                 edits == list_for_article(db, original_article.id)
                 ancestor == generate_article_version(edits, c.previous_version_id)
             IN  IF IsErr(ancestor) THEN Fail(db, ancestor.err)
                 ELSE LET ours == apply(ancestor, patch_from_str(c.diff))
                      IN  IF IsErr(ours) THEN Fail(db, ours.err)
                          ELSE LET m == merge(ancestor, ours, original_article.text)
                               IN  IF m.ok
                                   THEN LET db1 == submit_article_update(db, m.text, c.summary,
                                                       c.previous_version_id, original_article,
                                                       c.creator_id)
                                            db2 == DbConflict_delete(db1, c.id)
                                        IN  IF IsErr(db2) THEN Fail(db1, db2.err) ELSE Ok(db2, None)
                                   ELSE Ok(db, [id |-> c.id,
                                                hash |-> c.hash,
                                                three_way_merge |-> m.text,
                                                summary |-> c.summary,
                                                article_id |-> original_article.id,
                                                previous_version_id |->
                                                    latest_edit_version(db, original_article.id)])

\* mutant: the stated version is compared with the sentinel
no_divergence_sentinel(form, view) == form.previous_version_id = EditVersion_default

\* the stated previous version is the latest one the view shows
no_divergence(form, view) == form.previous_version_id = view.latest_version

\* mutant: the ancestor is replayed from the edits of every article
stale_conflict_any_article(db, user, form, view, new_text) ==
    LET edits == db.edit
        ancestor == generate_article_version(edits, form.previous_version_id)
    IN  IF IsErr(ancestor) THEN ancestor
        ELSE LET patch == create_patch(ancestor, new_text)
                 previous_version == DbEdit_read(db, form.previous_version_id)
             IN  IF IsErr(previous_version) THEN previous_version
                 ELSE DbConflict_create(db, [hash |-> EditVersion_new(patch_to_string(patch)),
                                             diff |-> patch_to_string(patch),
                                             summary |-> form.summary,
                                             creator_id |-> user,
                                             article_id |-> view.article.id,
                                             previous_version_id |-> previous_version.hash])

\* the Conflict row of a submission against an earlier version: its diff is
\* taken against the text replayed up to that version
\* mutant: the patch is taken against the article's current text
stale_conflict_from_current(db, user, form, view, new_text) ==
    LET edits == list_for_article(db, view.article.id)
        ancestor == generate_article_version(edits, form.previous_version_id)
    IN  IF IsErr(ancestor) THEN ancestor
        ELSE LET patch == create_patch(view.article.text, new_text)
                 previous_version == DbEdit_read(db, form.previous_version_id)
             IN  IF IsErr(previous_version) THEN previous_version
                 ELSE DbConflict_create(db, [hash |-> EditVersion_new(patch_to_string(patch)),
                                             diff |-> patch_to_string(patch),
                                             summary |-> form.summary,
                                             creator_id |-> user,
                                             article_id |-> view.article.id,
                                             previous_version_id |-> previous_version.hash])

stale_conflict(db, user, form, view, new_text) ==
    LET edits == list_for_article(db, view.article.id)
        ancestor == generate_article_version(edits, form.previous_version_id)
    IN  IF IsErr(ancestor) THEN ancestor
        ELSE LET patch == create_patch(ancestor, new_text)
                 previous_version == DbEdit_read(db, form.previous_version_id)
             IN  IF IsErr(previous_version) THEN previous_version
                 ELSE DbConflict_create(db, [hash |-> EditVersion_new(patch_to_string(patch)),
                                             diff |-> patch_to_string(patch),
                                             summary |-> form.summary,
                                             creator_id |-> user,
                                             article_id |-> view.article.id,
                                             previous_version_id |-> previous_version.hash])

\* the row DbConflict::create returned
newest_conflict(db) == CHOOSE c \in db.conflict : c.id = db.conflict_seq

\* edit_article from the version comparison on: view is what read_view
\* returned, new_text the formatted text.
edit_article_submit(db, user, form, view, new_text) ==
    IF no_divergence(form, view)
    THEN Ok(submit_article_update(db, new_text, form.summary, form.previous_version_id,
                                  view.article, user), None)
    ELSE LET db1 == stale_conflict(db, user, form, view, new_text)
         IN  IF IsErr(db1) THEN Fail(db, db1.err)
             ELSE to_api_conflict(db1, newest_conflict(db1))

\* mutant: the submitted text is compared with a fresh, empty text
no_changes_empty(form, view) == form.new_text = EmptyText

\* the submitted text is the text the article has
no_changes(form, view) == form.new_text = view.article.text

\* edit_article up to the version comparison: the conflict named by
\* resolve_conflict_id is deleted, the article read and the form validated.
\* Yields the view and the formatted text, or the failure.
edit_article_check(db, user, form) ==
    LET db1 == IF form.resolve_conflict_id = NoId THEN db
               ELSE DbConflict_delete(db, form.resolve_conflict_id)
    IN  IF IsErr(db1) THEN Fail(db, db1.err)
        ELSE LET view == DbArticle_read_view(db1, form.article_id)
             IN  IF IsErr(view) THEN Fail(db1, view.err)
                 ELSE IF no_changes(form, view)
                      THEN Fail(db1, "Edit contains no changes")
                 ELSE IF form.summary = "" THEN Fail(db1, "No summary given")
                 ELSE IF ~can_edit_article(view.article, IsAdmin(user))
                      THEN Fail(db1, "Article is protected, only admins on origin can edit")
                 ELSE LET text == IF ends_with_newline(form.new_text) THEN form.new_text
                                  ELSE push_newline(form.new_text)
                      IN  IF contains_local_link(text)
                          THEN Fail(db1, "Links to local instance don't work over federation")
                          ELSE LET new_text == fmtm_format(text)
                               IN  IF IsErr(new_text) THEN Fail(db1, new_text.err)
                                   ELSE [db |-> db1, kind |-> "Checked", err |-> "",
                                         conflict |-> None, view |-> view, new_text |-> new_text]

edit_article(db, user, form) ==
    LET chk == edit_article_check(db, user, form)
    IN  IF chk.kind = "Err" THEN chk
        ELSE edit_article_submit(chk.db, user, form, chk.view, chk.new_text)

(* ------------------------------ API layer ------------------------------ *)
\* mutant: only the first character is looked at
has_slash_first(title) == title # <<>> /\ title[1] = "/"

has_slash(title) == \E i \in DOMAIN title : title[i] = "/"
local_ap_id(title) == <<"https://local.example/article/", title>>

\* the path of a parsed url: a space is percent-encoded, anything else is kept
url_path(title) == [i \in DOMAIN title |-> IF title[i] = " " THEN "%20" ELSE title[i]]

create_article(db, user, form) ==
    IF form.title = <<>> THEN Fail(db, "Title must not be empty")
    ELSE IF has_slash(form.title) THEN Fail(db, "Invalid character /")
    ELSE LET ap_id == local_ap_id(replace_spaces(form.title))
         IN  IF ap_id_taken(db, ap_id) THEN Fail(db, "DuplicateArticle")
             ELSE LET db1 == DbArticle_create(db, [title |-> form.title, text |-> EmptyText,
                                                   ap_id |-> ap_id, local |-> TRUE,
                                                   protected |-> FALSE])
                      id == Len(db1.article)
                      edit_data == [article_id |-> id,
                                    new_text |-> form.text,
                                    summary |-> form.summary,
                                    previous_version_id |-> latest_edit_version(db1, id),
                                    resolve_conflict_id |-> NoId]
                  IN  edit_article(db1, user, edit_data)

\* mutant: the copy stops one edit short
RECURSIVE copy_edits_short(_, _, _, _)
copy_edits_short(db, edits, i, new_id) ==
    IF i >= Len(edits) THEN db
    ELSE copy_edits_short(DbEdit_create(db, [edits[i] EXCEPT !.article_id = new_id]),
                          edits, i + 1, new_id)

RECURSIVE copy_edits(_, _, _, _)
copy_edits(db, edits, i, new_id) ==
    IF i > Len(edits) THEN db
    ELSE copy_edits(DbEdit_create(db, [edits[i] EXCEPT !.article_id = new_id]), edits, i + 1, new_id)

fork_article(db, user, form) ==
    LET original_article == DbArticle_read_view(db, form.article_id)
    IN  IF IsErr(original_article) THEN Fail(db, original_article.err)
        ELSE LET ap_id == local_ap_id(url_path(form.new_title))
             IN  IF ap_id_taken(db, ap_id) THEN Fail(db, "DuplicateArticle")
                 ELSE LET db1 == DbArticle_create(db, [title |-> form.new_title,
                                                       text |-> original_article.article.text,
                                                       ap_id |-> ap_id, local |-> TRUE,
                                                       protected |-> FALSE])
                          edits == list_for_article(db1, original_article.article.id)
                      IN  Ok(copy_edits(db1, edits, 1, Len(db1.article)), None)

delete_conflict(db, user, form) ==
    LET db1 == DbConflict_delete(db, form.conflict_id)
    IN  IF IsErr(db1) THEN Fail(db, db1.err) ELSE Ok(db1, None)

protect_article(db, user, form) ==
    IF ~IsAdmin(user) THEN Fail(db, "Only admin can perform this action")
    ELSE IF form.article_id \notin DOMAIN db.article THEN Fail(db, "NotFound")
    ELSE Ok([db EXCEPT !.article[form.article_id].protected = form.protected], None)

(* ------------------------------- inputs -------------------------------- *)
Titles == {<<>>, <<"a">>}
\* versions a client may state: the sentinel, any edit's hash, an unknown one
StatedVersions == {EditVersion_default, UnknownVersion} \cup {edit[i].hash : i \in DOMAIN edit}
ConflictIds == 1..MaxConflicts
\* what a person may submit for an article: a draft, or the text it has
EditDrafts(p, id) == Drafts(p) \cup {Draft(article[id].text, "fix")}
EditForms(p, id) ==
    {[article_id |-> id, new_text |-> d.text, summary |-> d.summary,
      previous_version_id |-> pv, resolve_conflict_id |-> rc] :
        d \in EditDrafts(p, id), pv \in StatedVersions, rc \in {NoId} \cup ConflictIds}
\* the titles create_article is called with
CreateTitles == Titles \cup {<<"a", "/">>}

CreateForms(p) ==
    {[title |-> t, text |-> d.text, summary |-> d.summary] :
        t \in CreateTitles, d \in Drafts(p) \cup {Draft(EmptyText, "fix")}}

InBounds(db) ==
    /\ Len(db.article) <= MaxArticles
    /\ Len(db.edit) <= MaxEdits
    /\ db.conflict_seq <= MaxConflicts

\* the handler's writes reach the tables; its response is kept in last
Write(op, id, r) ==
    /\ InBounds(r.db)
    /\ article' = r.db.article
    /\ edit' = r.db.edit
    /\ conflict' = r.db.conflict
    /\ conflict_seq' = r.db.conflict_seq
    /\ last' = [op |-> op, article_id |-> id, kind |-> r.kind, err |-> r.err,
                conflict |-> r.conflict]
    /\ UNCHANGED <<fedvars, cachevars>>

\* a request handled from start to end with no other request in between
Respond(op, id, r) == Write(op, id, r) /\ UNCHANGED req

Idle == [stage |-> "idle"]

(* ------------------------------- actions ------------------------------- *)
Init ==
    /\ article = <<>>
    /\ edit = <<>>
    /\ conflict = {}
    /\ conflict_seq = 0
    /\ last = [op |-> "init", article_id |-> 0, kind |-> "Ok", err |-> "", conflict |-> None]
    /\ req = [p \in Persons |-> Idle]
    /\ instance_follow = [i \in Instances |-> {}]
    /\ fed_article = [i \in Instances |-> {}]
    /\ net = {}
    /\ sent = {}
    /\ delivered = <<>>
    /\ activity_seq = 0
    /\ instance_tab = {LocalInstanceRow}
    /\ person_tab = {}
    /\ resolved = [op |-> "init", kind |-> "Ok", err |-> ""]

CreateArticle ==
    \E user \in Persons : \E form \in CreateForms(user) :
        Respond("create_article", Len(article) + 1, create_article(Db, user, form))

EditArticle ==
    \E user \in Persons, id \in DOMAIN article : \E form \in EditForms(user, id) :
        Respond("edit_article", id, edit_article(Db, user, form))

ForkArticle ==
    \E user \in Persons, id \in DOMAIN article, title \in Titles :
        Respond("fork_article", id, fork_article(Db, user, [article_id |-> id, new_title |-> title]))

\* listing a person's notifications re-runs the resolution of each conflict
ResolveConflict ==
    \E c \in conflict :
        Respond("resolve_conflict", c.article_id, to_api_conflict(Db, c))

DeleteConflict ==
    \E user \in Persons, id \in ConflictIds :
        Respond("delete_conflict", 0, delete_conflict(Db, user, [conflict_id |-> id]))

Next ==
    \/ CreateArticle
    \/ EditArticle
    \/ ForkArticle
    \/ ResolveConflict
    \/ DeleteConflict

Spec == Init /\ [][Next]_vars

(* ------------------- specification with protection ---------------------- *)
\* api/article.rs protect_article: an admin sets or clears the flag
ProtectArticle ==
    \E user \in Persons, id \in DOMAIN article, p \in BOOLEAN :
        Respond("protect_article", id,
                protect_article(Db, user, [article_id |-> id, protected |-> p]))

NextProtect ==
    \/ CreateArticle
    \/ EditArticle
    \/ ResolveConflict
    \/ ProtectArticle

SpecProtect == Init /\ [][NextProtect]_vars


(* ---------------- edit_article, one database call at a time ------------- *)
\* Requests run concurrently with no lock and no transaction: between the
\* read of the article view and the writes of the submission, another
\* request may write.
ConcDrafts(p) ==
    IF p = 1
    THEN {Draft(Doc("A2", "E"), "fix"), Draft(Doc("A", "E"), "")}
    ELSE {Draft(Doc("A", "E2"), "fix"), Draft(Doc("A2", "E"), "fix")}

ConcForms(p, id) ==
    {[article_id |-> id, new_text |-> d.text, summary |-> d.summary,
      previous_version_id |-> pv, resolve_conflict_id |-> NoId] :
        d \in ConcDrafts(p), pv \in StatedVersions}

EditCheck(p) ==
    /\ req[p].stage # "checked"
    /\ \E id \in DOMAIN article : \E form \in ConcForms(p, id) :
        LET r == edit_article_check(Db, p, form)
        IN  /\ Write("edit_article", id, IF r.kind = "Checked" THEN Ok(r.db, None) ELSE r)
            /\ req' = [req EXCEPT ![p] =
                         IF r.kind = "Checked"
                         THEN [stage |-> "checked", form |-> form, view |-> r.view,
                               new_text |-> r.new_text, read_at |-> Len(edit)]
                         ELSE [stage |-> "failed"]]

EditSubmit(p) ==
    /\ req[p].stage = "checked"
    /\ LET q == req[p]
           r == edit_article_submit(Db, p, q.form, q.view, q.new_text)
       IN  /\ Write("edit_article", q.form.article_id, r)
           /\ req' = [req EXCEPT ![p] =
                        [stage |-> IF r.kind = "Err" THEN "failed"
                                   ELSE IF no_divergence(q.form, q.view)
                                   THEN "direct" ELSE "diverged",
                         article_id |-> q.form.article_id,
                         previous_version_id |-> q.form.previous_version_id,
                         read_at |-> q.read_at]]

NextConc ==
    \/ CreateArticle
    \/ \E p \in Persons : EditCheck(p)
    \/ \E p \in Persons : EditSubmit(p)

SpecConc == Init /\ [][NextConc]_vars

(* ============================== federation ============================== *)
\* the federation ids of an instance and of its local person
InstanceActor(i) == [kind |-> "Group", domain |-> i]
LocalPerson(i) == [kind |-> "Person", domain |-> i]
\* the inbox of an actor is the inbox of the instance that hosts it
inbox_url(actor) == actor.domain

Fed == [instance_follow |-> instance_follow, fed_article |-> fed_article,
        net |-> net, sent |-> sent, activity_seq |-> activity_seq]

FedOk(st) == [kind |-> "Ok", st |-> st]
FedFail(st) == [kind |-> "Err", st |-> st]

\* mutant: the insert has no ON CONFLICT clause
DbInstance_follow_insert(st, i, follower, instance, pending_) ==
    [st EXCEPT !.instance_follow[i] =
        @ \cup {[instance_id |-> instance, follower_id |-> follower, pending |-> pending_]}]

\* database/instance.rs DbInstance::follow, run on the database of instance i
DbInstance_follow(st, i, follower, instance, pending_) ==
    [st EXCEPT !.instance_follow[i] =
        {r \in @ : ~(r.instance_id = instance /\ r.follower_id = follower)}
            \cup {[instance_id |-> instance, follower_id |-> follower, pending |-> pending_]}]

\* mutant: the followers of every instance are read
read_followers_all(st, i, id_) ==
    {r.follower_id : r \in st.instance_follow[i]}

\* database/instance.rs DbInstance::read_followers
read_followers(st, i, id_) ==
    {r.follower_id : r \in {q \in st.instance_follow[i] : q.instance_id = id_}}

\* database/article.rs DbArticle::create_or_update: upsert keyed by ap_id
DbArticle_create_or_update(st, i, form) ==
    [st EXCEPT !.fed_article[i] = {a \in @ : a.ap_id # form.ap_id} \cup {form}]

generate_activity_id(st, domain) == [domain |-> domain, n |-> st.activity_seq + 1]

\* every inbox gets its own delivery
send_activity(st, activity, inboxes) ==
    LET msgs == {[to |-> b, activity |-> activity] : b \in inboxes}
    IN  [st EXCEPT !.net = @ \cup msgs, !.sent = @ \cup msgs]

\* federation/objects/instance.rs DbInstance::send_to_followers of instance
\* self_, run on instance i: the inboxes it delivers to
follower_inboxes(st, i, self_, extra_recipients) ==
    {inbox_url(f) : f \in read_followers(st, i, self_)}
        \cup {inbox_url(r) : r \in extra_recipients}

DbInstance_send_to_followers(st, i, self_, activity, extra_recipients) ==
    send_activity(st, activity, follower_inboxes(st, i, self_, extra_recipients))

\* mutant: the Accept goes to the inbox of the followed instance
Accept_send_to_object(st, local_instance, object) ==
    LET id == generate_activity_id(st, local_instance)
        accept == [type |-> "Accept", id |-> id, actor |-> InstanceActor(local_instance),
                   object |-> object]
    IN  send_activity([st EXCEPT !.activity_seq = @ + 1], accept, {inbox_url(object.object)})

\* activities/accept.rs Accept::send
Accept_send(st, local_instance, object) ==
    LET id == generate_activity_id(st, local_instance)
        follower == object.actor
        accept == [type |-> "Accept", id |-> id, actor |-> InstanceActor(local_instance),
                   object |-> object]
    IN  send_activity([st EXCEPT !.activity_seq = @ + 1], accept, {inbox_url(follower)})

\* a local person follows another instance: the edge is recorded as pending
\* and the Follow goes to the instance's inbox
Follow_send(st, i, to) ==
    LET id == generate_activity_id(st, i)
        follow == [type |-> "Follow", id |-> id, actor |-> LocalPerson(i),
                   object |-> InstanceActor(to)]
        st1 == DbInstance_follow(st, i, LocalPerson(i), to, TRUE)
    IN  send_activity([st1 EXCEPT !.activity_seq = @ + 1], follow, {to})

\* inbound Follow: the edge is established at once and an Accept goes back
Follow_receive(st, i, a) ==
    IF a.object # InstanceActor(i) THEN FedFail(st)
    ELSE FedOk(Accept_send(DbInstance_follow(st, i, a.actor, i, FALSE), i, a))

\* activities/accept.rs Accept::receive; dereference_local fails for a
\* person of another instance
Accept_receive(st, i, a) ==
    LET person == a.object.actor
        instance == a.actor.domain
    IN  IF person.domain # i THEN FedFail(st)
        ELSE FedOk(DbInstance_follow(st, i, person, instance, FALSE))

\* DbArticle::from_json: the embedded article is upserted; it is local when
\* its id lies in the receiving instance's domain
DbArticle_from_json(st, i, json) ==
    DbArticle_create_or_update(st, i,
        [ap_id |-> json.id, text |-> json.content, local |-> json.id.domain = i])

\* mutant: every recipient forwards the activity
CreateArticle_receive_forwards(st, i, a) ==
    FedOk(DbInstance_send_to_followers(DbArticle_from_json(st, i, a.object), i, i, a, {}))

\* activities/create_article.rs CreateArticle::receive
CreateArticle_receive(st, i, a) ==
    LET st1 == DbArticle_from_json(st, i, a.object)
        article_local == a.object.id.domain = i
    IN  IF article_local
        THEN FedOk(DbInstance_send_to_followers(st1, i, i, a, {}))
        ELSE FedOk(st1)

\* activities/create_article.rs CreateArticle::send_to_followers
CreateArticle_send_to_followers(st, i, article_) ==
    LET id == generate_activity_id(st, i)
        create == [type |-> "Create", id |-> id, actor |-> InstanceActor(i),
                   object |-> [id |-> article_.ap_id, content |-> article_.text]]
    IN  DbInstance_send_to_followers([st EXCEPT !.activity_seq = @ + 1], i, i, create, {})

\* mutant: the first delivery that fails is returned to the caller
send_activity_result_propagates(inboxes, failing) ==
    IF inboxes \cap failing = {} THEN "Ok" ELSE "Err"

\* what federation send_activity returns to its caller when the deliveries
\* to the inboxes in failing fail: a failed delivery is logged and dropped
send_activity_result(inboxes, failing) == "Ok"

\* the deliveries of one send that fail never reach their inbox
fail_deliveries(before, after, failing) ==
    [after EXCEPT !.net = {m \in @ : m \in before.net \/ m.to \notin failing}]

\* the update activity of an edit the origin committed, sent to its followers
UpdateLocalArticle_send(st, i, article_) ==
    LET id == generate_activity_id(st, i)
        update == [type |-> "Update", id |-> id, actor |-> InstanceActor(i),
                   object |-> [id |-> article_.ap_id, content |-> article_.text]]
    IN  DbInstance_send_to_followers([st EXCEPT !.activity_seq = @ + 1], i, i, update, {})

\* api/article.rs create_article and fork_article, after the commit:
\* CreateArticle::send_to_followers(..).await? and then Ok(Json(view))
article_fan_out(st, i, article_, failing) ==
    LET st1 == CreateArticle_send_to_followers(st, i, article_)
    IN  [kind |-> send_activity_result(follower_inboxes(st, i, i, {}), failing),
         st |-> fail_deliveries(st, st1, failing)]

\* api edit_article of a local article, after the commit
edit_fan_out(st, i, article_, failing) ==
    LET st1 == UpdateLocalArticle_send(st, i, article_)
    IN  [kind |-> send_activity_result(follower_inboxes(st, i, i, {}), failing),
         st |-> fail_deliveries(st, st1, failing)]

\* an edit the origin announces: accepted only from the article's own domain
UpdateLocalArticle_verify(st, i, a) == a.actor.domain = a.object.id.domain

\* recipients bring their copy of the article up to date
UpdateLocalArticle_receive(st, i, a) == FedOk(DbArticle_from_json(st, i, a.object))

\* verify of the activities an Announce may wrap
announcable_verify(st, i, a) ==
    IF a.type = "Create" THEN TRUE ELSE UpdateLocalArticle_verify(st, i, a)

announcable_receive(st, i, a) ==
    IF a.type = "Create" THEN CreateArticle_receive(st, i, a)
    ELSE UpdateLocalArticle_receive(st, i, a)

\* activities/announce.rs AnnounceActivity::send
AnnounceActivity_send(st, i, object) ==
    LET id == generate_activity_id(st, i)
        announce == [type |-> "Announce", id |-> id, actor |-> InstanceActor(i),
                     object |-> object]
    IN  send_activity([st EXCEPT !.activity_seq = @ + 1], announce,
                      {inbox_url(f) : f \in read_followers(st, i, i)})

\* mutant: the wrapped activity is received without being verified
AnnounceActivity_receive_unverified(st, i, a) ==
    announcable_receive(st, i, a.object)

\* activities/announce.rs AnnounceActivity::receive
AnnounceActivity_receive(st, i, a) ==
    IF ~announcable_verify(st, i, a.object) THEN FedFail(st)
    ELSE announcable_receive(st, i, a.object)

\* federation/routes.rs http_post_inbox: the activity is dispatched by type;
\* verify of Follow, Accept, CreateArticle and Announce accepts everything
http_post_inbox(st, i, a) ==
    IF a.type = "Follow" THEN Follow_receive(st, i, a)
    ELSE IF a.type = "Accept" THEN Accept_receive(st, i, a)
    ELSE IF a.type = "Create" THEN CreateArticle_receive(st, i, a)
    ELSE IF a.type = "Announce" THEN AnnounceActivity_receive(st, i, a)
    ELSE IF UpdateLocalArticle_verify(st, i, a) THEN UpdateLocalArticle_receive(st, i, a)
    ELSE FedFail(st)

(* --------------------------- federation actions ------------------------- *)
WriteFed(st) ==
    /\ st.activity_seq <= MaxActivities
    /\ instance_follow' = st.instance_follow
    /\ fed_article' = st.fed_article
    /\ net' = st.net
    /\ sent' = st.sent
    /\ activity_seq' = st.activity_seq
    /\ UNCHANGED <<article, edit, conflict, conflict_seq, last, req, cachevars>>

\* a local person asks to follow an instance it does not follow yet
FollowInstance ==
    \E i \in Instances : \E to \in FollowTargets(i) :
        /\ LocalPerson(i) \notin read_followers(Fed, i, to)
        /\ WriteFed(Follow_send(Fed, i, to))
        /\ UNCHANGED delivered

\* api create_article on instance i, as far as federation goes: the new
\* local article is stored and announced to the followers; the deliveries
\* to the inboxes in failing fail
CreateLocalArticle ==
    \E i \in Instances :
        /\ ~\E a \in fed_article[i] : a.local
        /\ LET article_ == [ap_id |-> [domain |-> i, title |-> "a"], text |-> "t1",
                            local |-> TRUE]
           IN  \E failing \in SUBSET Instances :
                   WriteFed(article_fan_out(DbArticle_create_or_update(Fed, i, article_),
                                            i, article_, failing).st)
        /\ UNCHANGED delivered

\* an instance relays an article activity that reached it to its followers
Announce ==
    \E i \in Instances : \E k \in DOMAIN delivered :
        /\ delivered[k].to = i
        /\ delivered[k].activity.type = "Create"
        /\ WriteFed(AnnounceActivity_send(Fed, i, delivered[k].activity))
        /\ UNCHANGED delivered

\* one delivery reaches its inbox and is handled there
Deliver(m) ==
    /\ WriteFed(http_post_inbox([Fed EXCEPT !.net = @ \ {m}], m.to, m.activity).st)
    /\ delivered' = Append(delivered, m)

ReceiveFollow ==
    \E m \in net : m.activity.type = "Follow" /\ Deliver(m)

ReceiveAccept ==
    \E m \in net : m.activity.type = "Accept" /\ Deliver(m)

ReceiveCreateArticle ==
    \E m \in net : m.activity.type = "Create" /\ Deliver(m)

ReceiveAnnounce ==
    \E m \in net : m.activity.type = "Announce" /\ Deliver(m)

\* a delivery fails and is dropped; nothing retries it
Drop ==
    \E m \in net :
        /\ net' = net \ {m}
        /\ UNCHANGED <<instance_follow, fed_article, sent, delivered, activity_seq>>
        /\ UNCHANGED <<article, edit, conflict, conflict_seq, last, req, cachevars>>

NextFed ==
    \/ FollowInstance
    \/ CreateLocalArticle
    \/ Announce
    \/ ReceiveFollow
    \/ ReceiveAccept
    \/ ReceiveCreateArticle
    \/ ReceiveAnnounce
    \/ Drop

SpecFed == Init /\ [][NextFed]_vars

(* ============================= actor cache ============================== *)
Cache == [instance_tab |-> instance_tab, person_tab |-> person_tab,
          fed_article |-> fed_article]

CacheOk(st) == [kind |-> "Ok", err |-> "", st |-> st]
CacheFail(st, e) == [kind |-> "Err", err |-> e, st |-> st]

\* a fetch that did not succeed
FetchFailed == [kind |-> "FetchFailed"]

\* activitypub_federation verify_domains_match
verify_domains_match(a, b) == a.domain = b.domain

\* database/instance.rs DbInstance::create: upsert keyed by ap_id
DbInstance_create(st, form) ==
    [st EXCEPT !.instance_tab = {r \in @ : r.ap_id # form.ap_id} \cup {form}]

\* database/user.rs DbPerson::create: upsert keyed by ap_id
DbPerson_create(st, form) ==
    [st EXCEPT !.person_tab = {r \in @ : r.ap_id # form.ap_id} \cup {form}]

\* database/user.rs DbPerson::create_local: a plain insert with a new keypair
DbPerson_create_local(st, username) ==
    LET ap_id == [kind |-> "Person", domain |-> LocalDomain]
    IN  IF \E r \in st.person_tab : r.ap_id = ap_id
        THEN CacheFail(st, "DatabaseError")
        ELSE CacheOk([st EXCEPT !.person_tab =
                 @ \cup {[ap_id |-> ap_id, username |-> username,
                          private_key |-> TRUE, local |-> TRUE]}])

\* federation/objects/instance.rs DbInstance::verify
DbInstance_verify(json, expected_domain) == verify_domains_match(json.id, expected_domain)

\* federation/objects/user.rs DbPerson::verify
DbPerson_verify(json, expected_domain) == verify_domains_match(json.id, expected_domain)

\* federation/objects/articles_collection.rs DbArticleCollection::verify
DbArticleCollection_verify(json, expected_domain) ==
    verify_domains_match(json.id, expected_domain)

\* federation/objects/articles_collection.rs DbArticleCollection::from_json:
\* the items are hydrated concurrently (try_join_all); when the items in
\* failing cannot be fetched the call fails, and the items in written had
\* been stored by then
DbArticleCollection_from_json(st, apub, failing, written) ==
    LET store(items) ==
            [st EXCEPT !.fed_article[LocalDomain] =
                {a \in @ : ~\E i \in items : i.id = a.ap_id}
                    \cup {[ap_id |-> i.id, text |-> i.content,
                           local |-> i.id.domain = LocalDomain] : i \in items}]
    IN  IF apub.items \cap failing = {}
        THEN CacheOk(store(apub.items))
        ELSE CacheFail(store(written \cap (apub.items \ failing)), "FetchFailed")

\* CollectionId::dereference: fetch, verify, from_json
dereference_collection(st, url, world) ==
    IF world.collection = FetchFailed THEN CacheFail(st, "FetchFailed")
    ELSE IF ~DbArticleCollection_verify(world.collection, url)
    THEN CacheFail(st, "DomainMismatch")
    ELSE DbArticleCollection_from_json(st, world.collection, world.failing, world.written)

\* mutant: the row made from a remote document holds a private key
DbPerson_from_json_with_key(st, json) ==
    CacheOk(DbPerson_create(st,
        [ap_id |-> json.id, username |-> json.preferred_username,
         private_key |-> TRUE, local |-> FALSE]))

\* federation/objects/user.rs DbPerson::from_json
DbPerson_from_json(st, json) ==
    CacheOk(DbPerson_create(st,
        [ap_id |-> json.id, username |-> json.preferred_username,
         private_key |-> FALSE, local |-> FALSE]))

\* federation/objects/instance.rs DbInstance::from_json: the row is written,
\* then the instance's article collection is fetched
DbInstance_from_json(st, json, world) ==
    LET form == [ap_id |-> json.id, description |-> json.content,
                 articles_url |-> json.articles, private_key |-> FALSE, local |-> FALSE]
        instance == DbInstance_create(st, form)
    IN  dereference_collection(instance, form.articles_url, world)

\* ObjectId<DbInstance>::dereference: a local id is read from the database;
\* a remote one is fetched when absent or stale, verified, then stored
resolve_instance(st, url, world) ==
    IF url.domain = LocalDomain
    THEN IF \E r \in st.instance_tab : r.ap_id = url
         THEN CacheOk(st) ELSE CacheFail(st, "NotFound")
    ELSE IF (\E r \in st.instance_tab : r.ap_id = url) /\ ~world.refetch THEN CacheOk(st)
    ELSE IF world.instance = FetchFailed THEN CacheFail(st, "FetchFailed")
    ELSE IF ~DbInstance_verify(world.instance, url) THEN CacheFail(st, "DomainMismatch")
    ELSE DbInstance_from_json(st, world.instance, world)

\* ObjectId<DbPerson>::dereference
resolve_person(st, url, world) ==
    IF url.domain = LocalDomain
    THEN IF \E r \in st.person_tab : r.ap_id = url
         THEN CacheOk(st) ELSE CacheFail(st, "NotFound")
    ELSE IF (\E r \in st.person_tab : r.ap_id = url) /\ ~world.refetch THEN CacheOk(st)
    ELSE IF world.person = FetchFailed THEN CacheFail(st, "FetchFailed")
    ELSE IF ~DbPerson_verify(world.person, url) THEN CacheFail(st, "DomainMismatch")
    ELSE DbPerson_from_json(st, world.person)

(* ------------------------ what remote servers answer -------------------- *)
\* an instance document names the article collection of its own domain (of
\* y when it claims to be the local instance)
InstanceDocs ==
    {[id |-> [kind |-> "Group", domain |-> d], content |-> c,
      articles |-> ArticlesUrl(IF d = LocalDomain THEN "y" ELSE d)] :
        d \in Instances, c \in {"d1", "d2"}}

PersonDocs ==
    {[id |-> [kind |-> "Person", domain |-> d], preferred_username |-> n] :
        d \in Instances, n \in {"u", "v"}}

ArticleItems ==
    {[id |-> [domain |-> d, title |-> "a"], content |-> "t1"] : d \in RemoteDomains}

CollectionDocs ==
    {[id |-> ArticlesUrl(d), items |-> its] : d \in RemoteDomains, its \in SUBSET ArticleItems}

\* one answer to each fetch a resolve may make
InstanceWorlds ==
    {[refetch |-> f, instance |-> i, collection |-> FetchFailed, failing |-> {}, written |-> {}] :
        f \in BOOLEAN, i \in InstanceDocs \cup {FetchFailed}}
    \cup
    UNION {UNION {{[refetch |-> TRUE, instance |-> i, collection |-> c,
                     failing |-> fl, written |-> w] :
                        w \in IF fl = {} THEN {{}} ELSE SUBSET (c.items \ fl)} :
                  fl \in SUBSET c.items} :
            i \in InstanceDocs, c \in CollectionDocs}

PersonWorlds ==
    {[refetch |-> f, person |-> p] : f \in BOOLEAN, p \in PersonDocs \cup {FetchFailed}}

(* ----------------------------- cache actions ---------------------------- *)
WriteCache(op, r) ==
    /\ instance_tab' = r.st.instance_tab
    /\ person_tab' = r.st.person_tab
    /\ fed_article' = r.st.fed_article
    /\ resolved' = [op |-> op, kind |-> r.kind, err |-> r.err]
    /\ UNCHANGED <<instance_follow, net, sent, delivered, activity_seq>>
    /\ UNCHANGED <<article, edit, conflict, conflict_seq, last, req>>

RegisterUser ==
    \E username \in {"u"} :
        LET r == DbPerson_create_local(Cache, username)
        IN  WriteCache("register", r)

ResolveInstance ==
    \E d \in Instances : \E world \in InstanceWorlds :
        LET r == resolve_instance(Cache, [kind |-> "Group", domain |-> d], world)
        IN  WriteCache("resolve_instance", r)

ResolvePerson ==
    \E d \in Instances : \E world \in PersonWorlds :
        LET r == resolve_person(Cache, [kind |-> "Person", domain |-> d], world)
        IN  WriteCache("resolve_person", r)

NextCache ==
    \/ RegisterUser
    \/ ResolveInstance
    \/ ResolvePerson

SpecCache == Init /\ [][NextCache]_vars

(* ================================ claims ================================ *)
edits_of(id) == list_for_article(Db, id)
text_of(id) == article[id].text

\* C1: for one article, two concurrent edit_article requests that state the
\* same previous version, each having read it as the article's latest
\* version, never both commit through the no-divergence branch.
C1_OneDirectCommit ==
    \A p1, p2 \in Persons :
        (/\ p1 # p2
         /\ req[p1].stage = "direct"
         /\ req[p2].stage = "direct"
         /\ req[p1].article_id = req[p2].article_id
         /\ req[p1].previous_version_id = req[p2].previous_version_id)
        => req[p1].read_at # req[p2].read_at

\* C3: edit_article called with previous_version_id equal to the article's
\* latest version creates no Conflict row (the table gains none and the
\* serial column hands out no id) and returns no ApiConflict.
C3_LatestVersionNoConflict ==
    \A user \in Persons, id \in DOMAIN article : \A form \in EditForms(user, id) :
        form.previous_version_id = latest_edit_version(Db, id) =>
            LET r == edit_article(Db, user, form)
            IN  /\ r.conflict = None
                /\ r.db.conflict_seq = conflict_seq
                /\ r.db.conflict \subseteq conflict

\* an edit went in through the no-divergence branch: no conflict id was ever
\* handed out, and the article has an edit after its first
C3_Witness ==
    /\ last.op = "edit_article"
    /\ last.kind = "Ok"
    /\ last.conflict = None
    /\ conflict_seq = 0
    /\ Len(edits_of(last.article_id)) >= 2

\* C4: in every reachable state each article's text is the replay of its
\* edits from the sentinel version up to its latest version.
C4_TextIsReplay ==
    \A id \in DOMAIN article :
        generate_article_version(edits_of(id), latest_edit_version(Db, id)) = text_of(id)

\* the errors edit_article raises when it rejects the submitted form
ValidationErrors ==
    {"Edit contains no changes", "No summary given",
     "Links to local instance don't work over federation", "Markdown formatting failed"}

\* C2 as stated: edit_article called (for an article that has edits) with a
\* previous_version_id other than the article's latest version, the form
\* passing validation, creates exactly one Conflict row and commits no edit.
C2_StaleAlwaysConflict ==
    \A user \in Persons, id \in DOMAIN article : \A form \in EditForms(user, id) :
        LET chk == edit_article_check(Db, user, form)
            r == edit_article(Db, user, form)
        IN  (/\ edits_of(id) # <<>>
             /\ chk.kind = "Checked"
             /\ form.previous_version_id # latest_edit_version(Db, id))
            => /\ r.db.conflict_seq = conflict_seq + 1
               /\ Cardinality(r.db.conflict) = Cardinality(chk.db.conflict) + 1
               /\ r.db.edit = edit

\* C2 amended: such a call either fails (as when the stated version is not
\* reached by the replay, or is no stored edit's hash) and writes nothing
\* after the validation, or creates exactly one Conflict row; it commits an
\* edit only
\* when that conflict merges cleanly, and then deletes the row again and
\* returns None; otherwise the row stays, no edit is committed and the
\* ApiConflict of that row is returned.
C2_StaleConflictOrMerge ==
    \A user \in Persons, id \in DOMAIN article : \A form \in EditForms(user, id) :
        LET chk == edit_article_check(Db, user, form)
            r == edit_article(Db, user, form)
        IN  (chk.kind = "Checked" /\ form.previous_version_id # latest_edit_version(Db, id))
            => \/ /\ r.kind = "Err"
                  /\ r.db = chk.db
               \/ /\ r.kind = "Ok"
                  /\ r.db.conflict_seq = conflict_seq + 1
                  /\ \/ /\ r.conflict # None
                        /\ r.conflict.id = conflict_seq + 1
                        /\ r.db.edit = edit
                        /\ r.db.article = article
                        /\ Cardinality(r.db.conflict) = Cardinality(chk.db.conflict) + 1
                        /\ \E c \in r.db.conflict :
                              /\ c.id = conflict_seq + 1
                              /\ c.previous_version_id = form.previous_version_id
                              /\ r.db.conflict = chk.db.conflict \cup {c}
                     \/ /\ r.conflict = None
                        /\ Len(r.db.edit) = Len(edit) + 1
                        /\ r.db.conflict = chk.db.conflict

\* a stale submission left its Conflict row behind and got the ApiConflict
C2_Witness ==
    /\ last.op = "edit_article"
    /\ last.kind = "Ok"
    /\ last.conflict # None
    /\ \E c \in conflict : c.id = last.conflict.id /\ c.article_id = last.article_id

\* C5 as stated: edit_article with new_text identical to the text of the
\* article (one that has edits) fails with the validation error whatever
\* else the form holds, appends no edit and creates no Conflict.
C5_NoChangesRejected ==
    \A user \in Persons, id \in DOMAIN article : \A form \in EditForms(user, id) :
        (edits_of(id) # <<>> /\ form.new_text = text_of(id)) =>
            LET r == edit_article(Db, user, form)
            IN  /\ r.kind = "Err"
                /\ r.err = "Edit contains no changes"
                /\ r.db.edit = edit
                /\ r.db.conflict_seq = conflict_seq
                /\ r.db.conflict \subseteq conflict

\* C5 amended: such a call always fails, appends no edit and creates no
\* Conflict; the failure is the validation error unless resolve_conflict_id
\* names no stored Conflict, in which case it is NotFound.
C5_NoChangesRejectedOrNotFound ==
    \A user \in Persons, id \in DOMAIN article : \A form \in EditForms(user, id) :
        form.new_text = text_of(id) =>
            LET r == edit_article(Db, user, form)
                dangling == /\ form.resolve_conflict_id # NoId
                            /\ ~\E c \in conflict : c.id = form.resolve_conflict_id
            IN  /\ r.kind = "Err"
                /\ r.err = IF dangling THEN "NotFound" ELSE "Edit contains no changes"
                /\ r.db.edit = edit
                /\ r.db.article = article
                /\ r.db.conflict_seq = conflict_seq
                /\ r.db.conflict \subseteq conflict

\* an edit of an article that has edits was rejected for changing nothing
C5_Witness ==
    /\ last.op = "edit_article"
    /\ last.err = "Edit contains no changes"
    /\ edits_of(last.article_id) # <<>>

\* C6: an edit_article call rejected with a validation error leaves every
\* table as it was, also when resolve_conflict_id was given: the Conflict it
\* names still exists.
C6_RejectedEditWritesNothing ==
    \A user \in Persons, id \in DOMAIN article : \A form \in EditForms(user, id) :
        LET r == edit_article(Db, user, form)
        IN  (r.kind = "Err" /\ r.err \in ValidationErrors) => r.db = Db

\* C7: a create_article call whose first edit fails validation leaves no
\* article row behind.
C7_FailedCreateLeavesNoArticle ==
    (/\ last.op = "create_article"
     /\ last.kind = "Err"
     /\ last.err \in ValidationErrors)
    => Len(article) < last.article_id

\* what fork_article copies of an edit
copied(e) == [diff |-> e.diff, hash |-> e.hash, summary |-> e.summary,
              creator_id |-> e.creator_id, previous_version_id |-> e.previous_version_id]

ForkTitles == Titles \cup {<<"b">>, <<"a", " ", "b">>}

\* C8: right after fork_article the new article has as many edits as the
\* source, position by position the same diff, hash, summary, creator and
\* previous_version_id, and the source's text.
C8_ForkCopiesChain ==
    \A user \in Persons, id \in DOMAIN article, title \in ForkTitles :
        LET r == fork_article(Db, user, [article_id |-> id, new_title |-> title])
            new == Len(article) + 1
            src == list_for_article(r.db, id)
            dst == list_for_article(r.db, new)
        IN  r.kind = "Ok" =>
                /\ Len(r.db.article) = new
                /\ Len(dst) = Len(src)
                /\ \A i \in DOMAIN src : copied(dst[i]) = copied(src[i])
                /\ \A i \in DOMAIN dst : dst[i].article_id = new
                /\ r.db.article[new].text = r.db.article[id].text
                /\ src = edits_of(id)
                /\ r.db.article[id] = article[id]

\* a fork of an article that has edits was just made
C8_Witness ==
    /\ last.op = "fork_article"
    /\ last.kind = "Ok"
    /\ Len(article) = 2
    /\ edits_of(2) # <<>>
    /\ Len(edits_of(2)) = Len(edits_of(last.article_id))
    /\ text_of(2) = text_of(last.article_id)

\* what C9 holds fixed of an article
frame_of(db, id) == [article |-> db.article[id],
                     edits |-> list_for_article(db, id),
                     latest |-> latest_edit_version(db, id)]

\* C9: an edit_article call, or the resolution of a Conflict, on one article
\* leaves the text, the edits and the latest version of every other article
\* as they were, also when the articles hold edits with the same hashes.
C9_EditLeavesOtherArticles ==
    /\ \A user \in Persons, id \in DOMAIN article : \A form \in EditForms(user, id) :
          LET r == edit_article(Db, user, form)
          IN  \A other \in DOMAIN article \ {id} : frame_of(r.db, other) = frame_of(Db, other)
    /\ \A c \in conflict :
          LET r == to_api_conflict(Db, c)
          IN  \A other \in DOMAIN article \ {c.article_id} :
                  frame_of(r.db, other) = frame_of(Db, other)

\* source and fork share an edit's hash, and one of them took an edit since
C9_Witness ==
    /\ Len(article) = 2
    /\ last.op = "edit_article"
    /\ last.kind = "Ok"
    /\ \E e1 \in DOMAIN edits_of(1), e2 \in DOMAIN edits_of(2) :
           edits_of(1)[e1].hash = edits_of(2)[e2].hash
    /\ Len(edits_of(1)) # Len(edits_of(2))
    /\ text_of(1) # text_of(2)

\* lines of the ancestor that a descendant changed
changed(ancestor, t) == {i \in DOMAIN ancestor.lines : t.lines[i] # ancestor.lines[i]}
\* both descendants changed the ancestor, line for line, on disjoint lines
disjoint_changes(ancestor, ours, theirs) ==
    /\ Len(ours.lines) = Len(ancestor.lines)
    /\ Len(theirs.lines) = Len(ancestor.lines)
    /\ changed(ancestor, ours) # {}
    /\ changed(ancestor, theirs) # {}
    /\ changed(ancestor, ours) \cap changed(ancestor, theirs) = {}
\* the text holds every line either descendant changed
has_both(text, ancestor, ours, theirs) ==
    /\ Len(text.lines) = Len(ancestor.lines)
    /\ \A i \in changed(ancestor, ours) : text.lines[i] = ours.lines[i]
    /\ \A i \in changed(ancestor, theirs) : text.lines[i] = theirs.lines[i]

\* to_api_conflict on c in db commits one edit that holds both changes,
\* deletes c and returns None
resolves(db, c) ==
    LET id == c.article_id
        ancestor == generate_article_version(list_for_article(db, id), c.previous_version_id)
        ours == apply(ancestor, patch_from_str(c.diff))
        theirs == db.article[id].text
        r == to_api_conflict(db, c)
    IN  (~IsErr(ancestor) /\ ~IsErr(ours) /\ disjoint_changes(ancestor, ours, theirs))
        => /\ r.kind = "Ok"
           /\ r.conflict = None
           /\ Len(r.db.edit) = Len(db.edit) + 1
           /\ SubSeq(r.db.edit, 1, Len(db.edit)) = db.edit
           /\ r.db.edit[Len(r.db.edit)].article_id = id
           /\ r.db.conflict = db.conflict \ {c}
           /\ has_both(r.db.article[id].text, ancestor, ours, theirs)
           /\ r.db.article[id].text = apply(theirs, patch_from_str(r.db.edit[Len(r.db.edit)].diff))

\* C10: when the submitter's change and the article's later change touch
\* disjoint lines of the ancestor, to_api_conflict commits exactly one new
\* edit whose text holds both changes, deletes the Conflict and returns None.
C10_DisjointChangesMerge ==
    /\ \A c \in conflict : resolves(Db, c)
    /\ \A user \in Persons, id \in DOMAIN article : \A form \in EditForms(user, id) :
          LET chk == edit_article_check(Db, user, form)
          IN  (chk.kind = "Checked" /\ ~no_divergence(form, chk.view)) =>
                  LET db1 == stale_conflict(chk.db, user, form, chk.view, chk.new_text)
                  IN  ~IsErr(db1) => resolves(db1, newest_conflict(db1))

\* a stale change of the last line was merged into an article whose first
\* line had changed since: one conflict id was handed out, no row is left
C10_Witness ==
    /\ last.op = "edit_article"
    /\ last.kind = "Ok"
    /\ last.conflict = None
    /\ conflict_seq = 1
    /\ conflict = {}
    /\ text_of(last.article_id) = Doc("A2", "E2")
    /\ Len(edits_of(last.article_id)) = 3

\* the lines diffy::merge puts around a conflicting region
ConflictMarkers == {"<<<<<<< ours", "||||||| original", "=======", ">>>>>>> theirs"}
has_markers(text) == \E i \in DOMAIN text.lines : text.lines[i] \in ConflictMarkers
\* both descendants changed one line of the ancestor, each to another line
overlapping_changes(ancestor, ours, theirs) ==
    /\ Len(ours.lines) = Len(ancestor.lines)
    /\ Len(theirs.lines) = Len(ancestor.lines)
    /\ \E i \in changed(ancestor, ours) \cap changed(ancestor, theirs) :
           ours.lines[i] # theirs.lines[i]

\* to_api_conflict on c in db returns the ApiConflict of c with conflict
\* markers in its text and writes nothing
stays_unresolved(db, c) ==
    LET id == c.article_id
        ancestor == generate_article_version(list_for_article(db, id), c.previous_version_id)
        ours == apply(ancestor, patch_from_str(c.diff))
        theirs == db.article[id].text
        r == to_api_conflict(db, c)
    IN  (~IsErr(ancestor) /\ ~IsErr(ours) /\ overlapping_changes(ancestor, ours, theirs))
        => /\ r.kind = "Ok"
           /\ r.conflict # None
           /\ r.conflict.id = c.id
           /\ has_markers(r.conflict.three_way_merge)
           /\ r.db = db
           /\ c \in r.db.conflict

\* C11: when the submitter's change and the article's later change modify
\* the same line differently, to_api_conflict returns Some ApiConflict whose
\* text carries conflict markers, commits no edit and leaves the Conflict
\* row in place.
C11_OverlappingChangesStay ==
    /\ \A c \in conflict : stays_unresolved(Db, c)
    /\ \A user \in Persons, id \in DOMAIN article : \A form \in EditForms(user, id) :
          LET chk == edit_article_check(Db, user, form)
          IN  (chk.kind = "Checked" /\ ~no_divergence(form, chk.view)) =>
                  LET db1 == stale_conflict(chk.db, user, form, chk.view, chk.new_text)
                  IN  ~IsErr(db1) => stays_unresolved(db1, newest_conflict(db1))

\* a rival change of the first line came back with conflict markers; its
\* Conflict row is stored and the article kept its two edits and its text
C11_Witness ==
    /\ last.op = "edit_article"
    /\ last.kind = "Ok"
    /\ last.conflict # None
    /\ has_markers(last.conflict.three_way_merge)
    /\ \E c \in conflict : c.id = last.conflict.id /\ c.creator_id = 2
    /\ Len(edits_of(last.article_id)) = 2
    /\ text_of(last.article_id) = Doc("A2", "E")

\* the Conflict rows of the current state that a handler's result lacks
removed(r) == conflict \ r.db.conflict

\* the three-way merge of a stored Conflict with its article's text is clean
merges_cleanly(db, c) ==
    LET ancestor == generate_article_version(list_for_article(db, c.article_id),
                                             c.previous_version_id)
        ours == apply(ancestor, patch_from_str(c.diff))
    IN  /\ ~IsErr(ancestor)
        /\ ~IsErr(ours)
        /\ merge(ancestor, ours, db.article[c.article_id].text).ok

C13_OnlyCreatorRemoves ==
    \A user \in Persons : \A c \in conflict :
        c.creator_id # user =>
            /\ LET r == delete_conflict(Db, user, [conflict_id |-> c.id])
               IN  r.kind = "Err" /\ c \in r.db.conflict
            /\ \A id \in DOMAIN article : \A form \in EditForms(user, id) :
                  form.resolve_conflict_id = c.id =>
                      LET r == edit_article(Db, user, form)
                      IN  r.kind = "Err" /\ c \in r.db.conflict

\* C14: while an article is protected, neither edit_article called by a
\* person who is not an admin nor the merge of a Conflict that such a person
\* created commits an edit to it.
C14_ProtectedKeepsNonAdminOut ==
    \A id \in DOMAIN article : article[id].protected =>
        /\ \A user \in Persons : \A form \in EditForms(user, id) :
              ~IsAdmin(user) => edit_article(Db, user, form).db.edit = edit
        /\ \A c \in conflict :
              (c.article_id = id /\ ~IsAdmin(c.creator_id)) =>
                  to_api_conflict(Db, c).db.edit = edit

(* --------------------------- federation claims -------------------------- *)
\* the rows of instance i's follow table for one (instance, follower) pair
edges(i, instance, follower) ==
    {r \in instance_follow[i] : r.instance_id = instance /\ r.follower_id = follower}

\* the activities of one type that have reached the inbox of instance i
received(i, type) ==
    {delivered[k].activity : k \in {j \in DOMAIN delivered :
        delivered[j].to = i /\ delivered[j].activity.type = type}}

\* C15: once an instance has received a Follow, its table holds the edge
\* (follower, this instance) with pending = false, and exactly one Accept
\* whose object is that Follow has been sent, to the follower's inbox.
C15_FollowIsAccepted ==
    \A i \in Instances : \A f \in received(i, "Follow") :
        /\ edges(i, i, f.actor) = {[instance_id |-> i, follower_id |-> f.actor, pending |-> FALSE]}
        /\ LET accepts == {m \in sent : m.activity.type = "Accept" /\ m.activity.object = f}
           IN  /\ Cardinality(accepts) = 1
               /\ \A m \in accepts : m.to = inbox_url(f.actor) /\ m.activity.actor = InstanceActor(i)

\* y has received the Follow of x's person, and its Accept has reached x
C15_Witness ==
    /\ \E f \in received("y", "Follow") : f.actor = LocalPerson("x")
    /\ \E a \in received("x", "Accept") : a.actor = InstanceActor("y")

\* C16: an article activity of an instance reaches the inbox of a follower's
\* instance only after that instance has received the instance's Accept.
C16_NoArticleBeforeAccept ==
    \A k \in DOMAIN delivered :
        delivered[k].activity.type \in {"Create", "Announce"} =>
            \E j \in 1..(k - 1) :
                /\ delivered[j].to = delivered[k].to
                /\ delivered[j].activity.type = "Accept"
                /\ delivered[j].activity.actor = delivered[k].activity.actor

\* the actors an activity may name as extra recipients
ExtraRecipients == SUBSET {LocalPerson(i) : i \in Instances}

follows_sent(x) ==
    {m.activity : m \in {n \in sent :
        n.activity.type = "Follow" /\ n.activity.actor = LocalPerson(x)}}

\* the Accept of Follow f has reached x's inbox
accepted(x, f) == \E a \in received(x, "Accept") : a.object = f

\* C18: from the moment a person's Follow is sent until its Accept is
\* received, the person's instance holds the edge with pending = true; once
\* the Accept has been received it holds the edge (Follow's actor, Accept's
\* actor) exactly once, with pending = false.
C18_PendingUntilAccept ==
    \A x \in Instances : \A f \in follows_sent(x) :
        edges(x, f.object.domain, f.actor) =
            {[instance_id |-> f.object.domain, follower_id |-> f.actor,
              pending |-> ~accepted(x, f)]}

\* x's Follow of y has been accepted and the edge is established
C18_Witness ==
    \E f \in follows_sent("x") :
        /\ accepted("x", f)
        /\ \E r \in instance_follow["x"] : r.instance_id = "y" /\ ~r.pending

\* article activities an inbox may be handed, wrapped or not: sent by any
\* instance about an article of any instance
ArticleActivities ==
    {[type |-> ty, id |-> [domain |-> d, n |-> 0], actor |-> InstanceActor(d),
      object |-> [id |-> [domain |-> o, title |-> "a"], content |-> c]] :
        ty \in {"Create", "Update"}, d \in Instances, o \in Instances, c \in {"t1", "t2"}}

holds_article(st, i, json) ==
    \E a \in st.fed_article[i] : a.ap_id = json.id /\ a.text = json.content

\* C19: an inbound Announce has its wrapped activity received only after
\* the wrapped activity's verify succeeded; if that verify fails the
\* Announce is refused and no state changes.
C19_AnnounceVerifiesFirst ==
    \A i \in Instances, relay \in Instances : \A w \in ArticleActivities :
        LET a == [type |-> "Announce", id |-> [domain |-> relay, n |-> 0],
                  actor |-> InstanceActor(relay), object |-> w]
            r == http_post_inbox(Fed, i, a)
        IN  IF announcable_verify(Fed, i, w)
            THEN r.kind = "Ok" /\ holds_article(r.st, i, w.object)
            ELSE r.kind = "Err" /\ r.st = Fed

\* z has received an Announce of x and holds the article it wraps
C19_Witness ==
    \E a \in received("z", "Announce") :
        /\ a.actor = InstanceActor("x")
        /\ holds_article(Fed, "z", a.object.object)

\* the inboxes of the established followers of instance i
established_inboxes(i) ==
    {inbox_url(r.follower_id) : r \in {q \in instance_follow[i] : q.instance_id = i}}

\* C20: an instance that receives a CreateArticle upserts the embedded
\* article, and hands the activity to its followers exactly when that
\* article is local to it; every CreateArticle delivery therefore goes to a
\* follower of the article's origin, once per inbox.
C20_OnlyOriginForwards ==
    /\ \A i \in Instances : \A w \in ArticleActivities :
          w.type = "Create" =>
              LET r == http_post_inbox(Fed, i, w)
                  article_local == w.object.id.domain = i
              IN  /\ r.kind = "Ok"
                  /\ holds_article(r.st, i, w.object)
                  /\ \A a \in r.st.fed_article[i] :
                        a.ap_id = w.object.id => a.local = article_local
                  /\ r.st.net = net \cup
                        (IF article_local
                         THEN {[to |-> b, activity |-> w] : b \in established_inboxes(i)}
                         ELSE {})
    /\ \A k \in DOMAIN delivered :
          delivered[k].activity.type = "Create" =>
              /\ delivered[k].to \in established_inboxes(delivered[k].activity.object.id.domain)
              /\ \A j \in DOMAIN delivered : delivered[j] = delivered[k] => j = k

\* x, which z follows, has received y's CreateArticle and passed it to nobody
C20_Witness ==
    \E c \in received("x", "Create") :
        /\ c.actor = InstanceActor("y")
        /\ holds_article(Fed, "x", c.object)
        /\ "z" \in established_inboxes("x")
        /\ ~\E m \in sent : m.activity = c /\ m.to # "x"

(* ----------------------------- cache claims ----------------------------- *)
InstanceUrls == {[kind |-> "Group", domain |-> d] : d \in Instances}
PersonUrls == {[kind |-> "Person", domain |-> d] : d \in Instances}

\* the documents a resolve of url fetches under world, in order; a fetch is
\* made only for a remote id that is absent or stale
fetches_instance(url, world) ==
    url.domain # LocalDomain
        /\ (world.refetch \/ ~\E r \in instance_tab : r.ap_id = url)

\* some document a resolve of an instance fetched claims an id of another
\* domain than the url it was fetched from
instance_mismatch(url, world) ==
    /\ fetches_instance(url, world)
    /\ world.instance # FetchFailed
    /\ \/ world.instance.id.domain # url.domain
       \/ /\ world.collection # FetchFailed
          /\ world.collection.id.domain # world.instance.articles.domain

\* C21: when a document fetched by a resolve claims an id whose domain is
\* not that of the url it came from, the resolve fails and no row of the
\* cache is created or updated.
C21_MismatchWritesNothing ==
    /\ \A url \in InstanceUrls : \A world \in InstanceWorlds :
          instance_mismatch(url, world) =>
              LET r == resolve_instance(Cache, url, world)
              IN  r.kind = "Err" /\ r.st = Cache
    /\ \A url \in PersonUrls : \A world \in PersonWorlds :
          (/\ url.domain # LocalDomain
           /\ (world.refetch \/ ~\E p \in person_tab : p.ap_id = url)
           /\ world.person # FetchFailed
           /\ world.person.id.domain # url.domain) =>
              LET r == resolve_person(Cache, url, world)
              IN  r.kind = "Err" /\ r.st = Cache

\* C22: when a resolve of a remote instance fails because a fetch fails
\* (of the instance, of its article collection, or of one article of it),
\* the cache is what it was before the resolve.
C22_FailedFetchWritesNothing ==
    \A url \in InstanceUrls : \A world \in InstanceWorlds :
        LET r == resolve_instance(Cache, url, world)
        IN  (r.kind = "Err" /\ r.err = "FetchFailed") => r.st = Cache

\* every row of a table holds a private key only if it is local
keys_are_local(st) ==
    /\ \A r \in st.instance_tab : r.private_key => r.local
    /\ \A r \in st.person_tab : r.private_key => r.local

\* C23: an actor row holds a private key only if its local flag is true;
\* rows created or refreshed from a remote document have local = false and
\* no private key, and no resolve leaves a non-local row with a private key.
C23_KeyOnlyIfLocal ==
    /\ keys_are_local(Cache)
    /\ \A url \in InstanceUrls : \A world \in InstanceWorlds :
          LET r == resolve_instance(Cache, url, world)
          IN  /\ keys_are_local(r.st)
              /\ \A row \in r.st.instance_tab \ instance_tab :
                    ~row.local /\ ~row.private_key
    /\ \A url \in PersonUrls : \A world \in PersonWorlds :
          LET r == resolve_person(Cache, url, world)
          IN  /\ keys_are_local(r.st)
              /\ \A row \in r.st.person_tab \ person_tab :
                    ~row.local /\ ~row.private_key

\* the cache holds the local person with its key, a remote person that was
\* refreshed, and a remote instance beside the local one
C23_Witness ==
    /\ resolved.op = "resolve_person" /\ resolved.kind = "Ok"
    /\ \E r \in person_tab : r.local /\ r.private_key
    /\ \E r \in person_tab : ~r.local /\ r.username = "v"
    /\ \E r \in instance_tab : ~r.local /\ r.description = "d2"
    /\ \E r \in instance_tab : r.local /\ r.private_key

(* ------------------------- claims on the fan-out ------------------------ *)
LocalArticleTexts == {"t1", "t2"}
committed_article(i, text) == [ap_id |-> [domain |-> i, title |-> "a"], text |-> text,
                               local |-> TRUE]

AnyTitles == ForkTitles \cup CreateTitles \cup {<<"/">>, <<" ">>, <<"a", " ", "/">>}
AnyCreateForms(p) ==
    {[title |-> t, text |-> d.text, summary |-> d.summary] :
        t \in AnyTitles, d \in Drafts(p) \cup {Draft(EmptyText, "fix")}}

\* the stored title is the given one with every space turned into "_"
underscored(stored, given) ==
    /\ Len(stored) = Len(given)
    /\ \A k \in DOMAIN given :
          stored[k] = (IF given[k] = " " THEN "_" ELSE given[k])

\* C25: create_article with an empty title or a title that contains "/"
\* fails and writes nothing; with any other title, the article it stores
\* carries the given title with spaces replaced by underscores.
C25_TitleIsValidated ==
    \A user \in Persons : \A form \in AnyCreateForms(user) :
        LET r == create_article(Db, user, form)
        IN  IF form.title = <<>> \/ (\E k \in DOMAIN form.title : form.title[k] = "/")
            THEN r.kind = "Err" /\ r.db = Db
            ELSE /\ Len(r.db.article) <= Len(article) + 1
                 /\ \A k \in (Len(article) + 1)..Len(r.db.article) :
                        underscored(r.db.article[k].title, form.title)
                 /\ r.kind = "Ok" => Len(r.db.article) = Len(article) + 1

\* a create_article with "/" in its title was refused while an article
\* created before is stored
C25_Witness ==
    /\ last.op = "create_article"
    /\ last.kind = "Err"
    /\ last.err = "Invalid character /"
    /\ Len(article) >= 1
    /\ Len(edit) >= 1

\* the forms of articles received through federation: ids that are stored
\* already, and one that is not
remote_ap_id == <<"https://remote.example/article/", <<"a">>>>
ReceivedForms ==
    {[title |-> t, text |-> d.text, ap_id |-> id, local |-> FALSE, protected |-> FALSE] :
        t \in {<<"a">>, <<"a", " ", "b">>}, d \in Drafts(1),
        id \in {article[k].ap_id : k \in DOMAIN article} \cup {remote_ap_id}}

rows_with(db, ap_id) == {k \in DOMAIN db.article : db.article[k].ap_id = ap_id}

\* C26: no two articles share a federation id. create_article and
\* fork_article for an id that is stored already fail and leave every
\* article, edit and conflict as it was; the upsert of a received article
\* whose id is stored already changes that one row in place, adds no row and
\* touches no edit, and after any upsert exactly one row holds the id.
C26_OneArticlePerApId ==
    /\ \A k \in DOMAIN article : rows_with(Db, article[k].ap_id) = {k}
    /\ \A user \in Persons : \A form \in AnyCreateForms(user) :
          LET r == create_article(Db, user, form)
          IN  /\ ap_id_taken(Db, local_ap_id(replace_spaces(form.title)))
                    => r.kind = "Err" /\ r.db = Db
              /\ \A k \in DOMAIN r.db.article : rows_with(r.db, r.db.article[k].ap_id) = {k}
    /\ \A user \in Persons, id \in DOMAIN article : \A title \in ForkTitles :
          LET r == fork_article(Db, user, [article_id |-> id, new_title |-> title])
          IN  /\ ap_id_taken(Db, local_ap_id(title)) => r.kind = "Err" /\ r.db = Db
              /\ \A k \in DOMAIN r.db.article : rows_with(r.db, r.db.article[k].ap_id) = {k}
    /\ \A form \in ReceivedForms :
          LET db1 == DbArticle_create_or_update_row(Db, form)
          IN  /\ Cardinality(rows_with(db1, form.ap_id)) = 1
              /\ db1.edit = edit /\ db1.conflict = conflict
              /\ \A k \in DOMAIN article : article[k].ap_id # form.ap_id
                                               => db1.article[k] = article[k]
              /\ ap_id_taken(Db, form.ap_id)
                    => /\ Len(db1.article) = Len(article)
                       /\ \A k \in rows_with(Db, form.ap_id) :
                             /\ db1.article[k].id = k
                             /\ db1.article[k].text = form.text

\* create_article was refused as a duplicate while the article that holds
\* the id has edits
C26_Witness ==
    /\ last.op = "create_article"
    /\ last.kind = "Err"
    /\ last.err = "DuplicateArticle"
    /\ \E k \in DOMAIN article :
          /\ article[k].ap_id = local_ap_id(<<"a">>)
          /\ Len(edits_of(k)) >= 2

(* ----------------------- claims on the edit versions -------------------- *)
\* the rows of the edit table that belong to an article, by position
edit_rows(db, id) == {k \in DOMAIN db.edit : db.edit[k].article_id = id}

\* C27: latest_edit_version of an article is the hash of the edit appended
\* to it last, and it is EditVersion::default() exactly when the article has
\* no edit; after an edit_article call that appends an edit it is that
\* edit's hash.
C27_LatestIsLastAppended ==
    /\ \A id \in DOMAIN article :
          /\ edit_rows(Db, id) = {} <=> latest_edit_version(Db, id) = EditVersion_default
          /\ edit_rows(Db, id) # {}
                => latest_edit_version(Db, id) = edit[MaxOf(edit_rows(Db, id))].hash
    /\ \A user \in Persons, id \in DOMAIN article : \A form \in EditForms(user, id) :
          LET r == edit_article(Db, user, form)
          IN  Len(r.db.edit) > Len(edit)
                  => /\ r.db.edit[Len(r.db.edit)].article_id = id
                     /\ latest_edit_version(r.db, id) = r.db.edit[Len(r.db.edit)].hash
                     /\ latest_edit_version(r.db, id) # EditVersion_default

\* an edit was committed to an article whose first and last edits differ,
\* while another article has no edit at all
C27_Witness ==
    /\ last.op = "edit_article"
    /\ last.kind = "Ok"
    /\ \E id \in DOMAIN article :
          /\ Len(edits_of(id)) >= 2
          /\ edits_of(id)[1].hash # latest_edit_version(Db, id)
    /\ \E id \in DOMAIN article : edits_of(id) = <<>>

\* the versions of an article's own chain: the sentinel and its edits' hashes
own_versions(db, id) == {EditVersion_default} \cup {db.edit[k].hash : k \in edit_rows(db, id)}

\* the hashes of the edits of the other articles
foreign_versions(db, id) ==
    {db.edit[k].hash : k \in DOMAIN db.edit \ edit_rows(db, id)} \ own_versions(db, id)

\* C28: edit_article whose previous_version_id is no version of the
\* article's own chain fails and creates neither an edit nor a Conflict, also
\* when another article holds an edit with that hash; when the form passes
\* the validation, the failure is that the version was not found.
C28_ForeignVersionNotFound ==
    \A user \in Persons, id \in DOMAIN article : \A form \in EditForms(user, id) :
        LET chk == edit_article_check(Db, user, form)
            r == edit_article(Db, user, form)
        IN  form.previous_version_id \notin own_versions(Db, id)
            => /\ r.kind = "Err"
               /\ r.db.edit = edit
               /\ r.db.article = article
               /\ r.db.conflict \subseteq conflict
               /\ r.db.conflict_seq = conflict_seq
               /\ chk.kind = "Checked" => r.err = "VersionNotFound"

\* an edit was refused because its version was not found, for an article
\* next to which another article holds edits that are not in its chain
C28_Witness ==
    /\ last.op = "edit_article"
    /\ last.kind = "Err"
    /\ last.err = "VersionNotFound"
    /\ last.article_id \in DOMAIN article
    /\ foreign_versions(Db, last.article_id) # {}
    /\ edits_of(last.article_id) # <<>>

\* the bytes of the text "test"
TestBytes == <<116, 101, 115, 116>>

\* EditVersion::default().hash() and EditVersion::new("test").hash()
DefaultVersionHex == version_hash(<<>>)
TestVersionHex == version_hash(TestBytes)

\* C29: EditVersion::new is a function of the diff text alone: every stored
\* edit and conflict carries the version of its own diff, whatever its
\* article, creator and summary, so equal diffs have equal versions.
\* EditVersion::default() is EditVersion::new(""), whose hex form is
\* e3b0c44298fc1c149afbf4c8996fb924.
C29_VersionIsHashOfDiff ==
    /\ \A k \in DOMAIN edit : edit[k].hash = EditVersion_new(edit[k].diff)
    /\ \A c \in conflict : c.hash = EditVersion_new(c.diff)
    /\ \A k, l \in DOMAIN edit : edit[k].diff = edit[l].diff => edit[k].hash = edit[l].hash
    /\ EditVersion_default = EditVersion_new(EmptyString)
    /\ \A id \in DOMAIN article :
          edit_rows(Db, id) = {} => latest_edit_version(Db, id) = EditVersion_new(EmptyString)
    /\ DefaultVersionHex =
          <<"e", "3", "b", "0", "c", "4", "4", "2", "9", "8", "f", "c", "1", "c", "1", "4",
            "9", "a", "f", "b", "f", "4", "c", "8", "9", "9", "6", "f", "b", "9", "2", "4">>
    /\ TestVersionHex =
          <<"9", "f", "8", "6", "d", "0", "8", "1", "8", "8", "4", "c", "7", "d", "6", "5",
            "9", "a", "2", "f", "e", "a", "a", "0", "c", "5", "5", "a", "d", "0", "1", "5">>

\* two articles hold an edit with the same diff and so the same version,
\* next to an edit with another diff and another version
C29_Witness ==
    \E k, l, m \in DOMAIN edit :
        /\ edit[k].article_id # edit[l].article_id
        /\ edit[k].diff = edit[l].diff
        /\ edit[k].hash = edit[l].hash
        /\ edit[m].diff # edit[k].diff
        /\ edit[m].hash # edit[k].hash
        /\ edit[m].hash # EditVersion_default

(* ------------------- claims on resolving a conflict --------------------- *)
\* the forms a person resubmits for the descriptor d of a conflict
ResubmitForms(p, d) ==
    {[article_id |-> d.article_id, new_text |-> x.text, summary |-> x.summary,
      previous_version_id |-> d.previous_version_id, resolve_conflict_id |-> d.id] :
        x \in Drafts(p)}

\* C30: when the resolution of a conflict returns a descriptor, its
\* previous_version_id is the latest version of the article; an edit
\* resubmitted next with that previous_version_id and the descriptor's id as
\* resolve_conflict_id, once it passes the validation, is committed as a
\* direct edit on top of that version, returns no conflict, and the Conflict
\* row is gone.
C30_ResubmissionCommits ==
    \A c \in conflict :
        LET r == to_api_conflict(Db, c)
        IN  (r.kind = "Ok" /\ r.conflict # None)
            => /\ r.db = Db
               /\ r.conflict.id = c.id
               /\ r.conflict.article_id = c.article_id
               /\ r.conflict.previous_version_id = latest_edit_version(Db, c.article_id)
               /\ \A user \in Persons : \A form \in ResubmitForms(user, r.conflict) :
                     LET chk == edit_article_check(r.db, user, form)
                         e == edit_article(r.db, user, form)
                     IN  /\ ~\E x \in e.db.conflict : x.id = c.id
                         /\ chk.kind = "Checked"
                               => /\ e.kind = "Ok"
                                  /\ e.conflict = None
                                  /\ e.db.conflict = conflict \ {c}
                                  /\ e.db.conflict_seq = conflict_seq
                                  /\ Len(e.db.edit) = Len(edit) + 1
                                  /\ e.db.edit[Len(e.db.edit)].article_id = c.article_id
                                  /\ e.db.edit[Len(e.db.edit)].previous_version_id
                                         = r.conflict.previous_version_id
                                  /\ e.db.article[c.article_id].text = chk.new_text

\* the resolution of a conflict has returned its descriptor, which names the
\* latest version of the article, not the version the conflict was made
\* against, and the resubmission has room to commit
C30_Witness ==
    /\ last.op = "resolve_conflict"
    /\ last.kind = "Ok"
    /\ last.conflict # None
    /\ \E c \in conflict :
          /\ c.id = last.conflict.id
          /\ last.conflict.previous_version_id = latest_edit_version(Db, c.article_id)
          /\ last.conflict.previous_version_id # c.previous_version_id
    /\ Len(edit) < MaxEdits

\* the descriptor that the resolution of the unresolvable conflict c derives
\* from the rows of db: the merge of c's text with the article's text of now,
\* and the article's latest version of now
derived_descriptor(db, c) ==
    LET id == c.article_id
        ancestor == generate_article_version(list_for_article(db, id), c.previous_version_id)
        ours == apply(ancestor, patch_from_str(c.diff))
    IN  [id |-> c.id,
         hash |-> c.hash,
         three_way_merge |-> merge(ancestor, ours, db.article[id].text).text,
         summary |-> c.summary,
         article_id |-> id,
         previous_version_id |-> latest_edit_version(db, id)]

\* C31: when the resolution of a conflict returns a descriptor, it writes
\* nothing and a second resolution returns the same descriptor; after an edit
\* has been committed to the article, a resolution that still returns a
\* descriptor derives it from the article's new text and new latest version.
C31_DescriptorFollowsOrigin ==
    \A c \in conflict :
        LET r == to_api_conflict(Db, c)
        IN  (r.kind = "Ok" /\ r.conflict # None)
            => /\ r.db = Db
               /\ to_api_conflict(r.db, c) = r
               /\ r.conflict = derived_descriptor(Db, c)
               /\ \A user \in Persons : \A form \in EditForms(user, c.article_id) :
                     LET e == edit_article(r.db, user, form)
                         r2 == to_api_conflict(e.db, c)
                     IN  (/\ e.kind = "Ok"
                          /\ Len(e.db.edit) = Len(edit) + 1
                          /\ c \in e.db.conflict
                          /\ r2.kind = "Ok"
                          /\ r2.conflict # None)
                         => /\ r2.db = e.db
                            /\ r2.conflict = derived_descriptor(e.db, c)
                            /\ r2.conflict.previous_version_id
                                   = e.db.edit[Len(e.db.edit)].hash

\* a conflict made against the first version was left unresolved, a third
\* edit then changed the article, and the resolution run after it returned a
\* descriptor that names the third edit and merges against the new text
C31_Witness ==
    /\ last.op = "resolve_conflict"
    /\ last.kind = "Ok"
    /\ last.conflict # None
    /\ Len(edit) = MaxEdits
    /\ \E c \in conflict :
          /\ c.id = last.conflict.id
          /\ \A k \in DOMAIN edit : edit[k].article_id = c.article_id
          /\ c.previous_version_id = edit[1].hash
          /\ last.conflict.previous_version_id = edit[Len(edit)].hash
          /\ last.conflict = derived_descriptor(Db, c)
          /\ last.conflict.three_way_merge
                 # merge(generate_article_version(list_for_article(Db, c.article_id),
                                                  c.previous_version_id),
                         apply(generate_article_version(list_for_article(Db, c.article_id),
                                                        c.previous_version_id),
                               patch_from_str(c.diff)),
                         generate_article_version(list_for_article(Db, c.article_id),
                                                  edit[Len(edit)].previous_version_id)).text

\* C32: in every reachable state the edits of each article form one chain:
\* the first edit's previous_version_id is the sentinel version and every
\* later edit's previous_version_id is the hash of the edit appended before
\* it, which was the article's latest version at that moment.
C32_EditsFormOneChain ==
    \A id \in DOMAIN article :
        LET es == edits_of(id)
        IN  \A k \in DOMAIN es :
                es[k].previous_version_id
                    = IF k = 1 THEN EditVersion_default ELSE es[k - 1].hash

\* the local articles of db that carry the stored title t
local_with_title(db, t) ==
    {k \in DOMAIN db.article : db.article[k].local /\ db.article[k].title = t}

\* a lookup of a local article by title matches at most one row
unique_local_titles(db) ==
    \A k \in DOMAIN db.article : Cardinality(local_with_title(db, db.article[k].title)) <= 1

\* C33: after create_article and fork_article calls no two local articles
\* carry the same stored title: in every reachable state, and after any
\* create_article followed by a fork_article of the article it made.
C33_LocalTitlesUnique ==
    /\ unique_local_titles(Db)
    /\ \A user \in Persons, title \in AnyTitles : \A form \in AnyCreateForms(user) :
          LET r1 == create_article(Db, user, form)
              r2 == fork_article(r1.db, user, [article_id |-> Len(r1.db.article),
                                               new_title |-> title])
          IN  (r1.kind = "Ok" /\ r2.kind = "Ok") => unique_local_titles(r2.db)

\* the title rules of create_article, on a stored title
well_formed_title(t) ==
    /\ t # <<>>
    /\ \A k \in DOMAIN t : t[k] # "/" /\ t[k] # " "

local_titles_well_formed(db) ==
    \A k \in DOMAIN db.article : db.article[k].local => well_formed_title(db.article[k].title)

\* C34: every local article's stored title is non-empty and holds neither
\* "/" nor a space, in every reachable state and after any fork_article
\* call; fork_article rejects the titles that create_article rejects.
C34_LocalTitlesWellFormed ==
    /\ local_titles_well_formed(Db)
    /\ \A user \in Persons, id \in DOMAIN article, title \in AnyTitles :
          LET r == fork_article(Db, user, [article_id |-> id, new_title |-> title])
          IN  /\ r.kind = "Ok" => local_titles_well_formed(r.db)
              /\ (title = <<>> \/ has_slash(title)) => r.kind = "Err" /\ r.db = Db

\* the text the Conflict c stands for: its diff applied to the article's
\* text at the version c was made against
conflict_text(db, c) ==
    LET ancestor == generate_article_version(list_for_article(db, c.article_id),
                                             c.previous_version_id)
    IN  IF IsErr(ancestor) THEN ancestor ELSE apply(ancestor, patch_from_str(c.diff))

\* C35: the Conflict that edit_article stores for a diverging edit carries
\* the submitted previous_version_id, its hash is the version of its diff,
\* and its diff applied to the text replayed at that previous version gives
\* the formatted text that was submitted.
C35_ConflictHoldsSubmission ==
    \A user \in Persons, id \in DOMAIN article : \A form \in EditForms(user, id) :
        LET chk == edit_article_check(Db, user, form)
        IN  (chk.kind = "Checked" /\ ~no_divergence(form, chk.view)) =>
                LET db1 == stale_conflict(chk.db, user, form, chk.view, chk.new_text)
                IN  ~IsErr(db1) =>
                        LET c == newest_conflict(db1)
                        IN  /\ db1.conflict = chk.db.conflict \cup {c}
                            /\ c \notin chk.db.conflict
                            /\ c.article_id = id
                            /\ c.creator_id = user
                            /\ c.previous_version_id = form.previous_version_id
                            /\ c.hash = EditVersion_new(c.diff)
                            /\ conflict_text(db1, c) = chk.new_text

\* a diverging edit was answered with a conflict: the stored row was made
\* against a version older than the latest one, carries the version of its
\* diff, and stands for a text that is neither the article's nor the
\* ancestor's
C35_Witness ==
    /\ last.op = "edit_article"
    /\ last.kind = "Ok"
    /\ last.conflict # None
    /\ \E c \in conflict :
          /\ c.id = last.conflict.id
          /\ c.previous_version_id # latest_edit_version(Db, c.article_id)
          /\ c.hash = EditVersion_new(c.diff)
          /\ ~IsErr(conflict_text(Db, c))
          /\ conflict_text(Db, c) # text_of(c.article_id)
          /\ conflict_text(Db, c)
                 # generate_article_version(edits_of(c.article_id), c.previous_version_id)

\* the local articles of instance i, row by row
local_rows(st, i) == {a \in st.fed_article[i] : a.local}

\* C36: a CreateArticle that a remote actor delivers to instance i, directly
\* or wrapped in an Announce, leaves every article that is local to i as it
\* was: same text, same local flag.
C36_RemoteCreateKeepsLocal ==
    \A i \in Instances, relay \in Instances : \A w \in ArticleActivities :
        (w.type = "Create" /\ w.actor.domain # i /\ relay # i) =>
            LET direct == http_post_inbox(Fed, i, w)
                wrapped == http_post_inbox(Fed, i,
                               [type |-> "Announce", id |-> [domain |-> relay, n |-> 0],
                                actor |-> InstanceActor(relay), object |-> w])
            IN  /\ local_rows(Fed, i) \subseteq local_rows(direct.st, i)
                /\ local_rows(Fed, i) \subseteq local_rows(wrapped.st, i)

\* the Accept activities an inbox may be handed: sent by any instance, about
\* a Follow of any person for any instance
AcceptActivities ==
    {[type |-> "Accept", id |-> [domain |-> from, n |-> 0], actor |-> InstanceActor(from),
      object |-> [type |-> "Follow", id |-> [domain |-> p, n |-> k],
                  actor |-> LocalPerson(p), object |-> InstanceActor(target)]] :
        from \in Instances, p \in Instances, target \in Instances, k \in 0..1}

\* the person of instance i has sent a Follow to the instance
follow_was_sent(i, instance) ==
    \E f \in follows_sent(i) : f.object = InstanceActor(instance)

\* C37: an established edge from a local person to a remote instance exists
\* only if that person has sent a Follow to that instance; an Accept whose
\* Follow was never sent, or whose actor is not the instance its Follow
\* names, leaves the follow table as it was.
C37_EdgeNeedsFollow ==
    \A i \in Instances :
        /\ \A r \in instance_follow[i] :
              (r.follower_id = LocalPerson(i) /\ r.instance_id # i /\ ~r.pending)
                  => follow_was_sent(i, r.instance_id)
        /\ \A a \in AcceptActivities :
              (a.object \notin follows_sent(i) \/ a.actor # a.object.object)
                  => http_post_inbox(Fed, i, a).st.instance_follow[i] = instance_follow[i]

\* C38: every edit that edit_article commits changes the article's text: an
\* edit_article call that appends an edit leaves the article with another
\* text than it had, and no stored edit carries a diff without changes.
C38_CommittedEditChangesText ==
    /\ \A k \in DOMAIN edit : patch_from_str(edit[k].diff) # <<>>
    /\ \A user \in Persons, id \in DOMAIN article : \A form \in EditForms(user, id) :
          LET r == edit_article(Db, user, form)
          IN  (r.kind = "Ok" /\ Len(r.db.edit) > Len(edit))
                  => r.db.article[id].text # text_of(id)

====
